---- MODULE Spec2Model ----
(***************************************************************************)
(* A model of the anomaly detector service: the prediction cache           *)
(* (telegram_prediction_cache.py), the two detectors (telegram_metrics.py, *)
(* telegram_repost.py), the aggregator (detector.py) and the consumer loop *)
(* (container_detector.py).                                                *)
(*                                                                         *)
(* Conventions.  Timestamps are integers, in seconds.  Python's None is    *)
(* Null (-1) where the value is a number, "None" where it is a string and  *)
(* the record None where it is a dict.  Every function of the code that    *)
(* can raise is an operator returning a record with a field `raised`.      *)
(***************************************************************************)
EXTENDS Integers, Sequences, FiniteSets, TLC

VARIABLES
    now,            \* the clock (datetime.now() and the TTLCache timer), seconds
    dbUp,           \* whether the relational store answers queries
    redisUp,        \* whether the key-value store answers
    kibanaUp,       \* whether Kibana answers
    db,             \* the relational store: its three tables
    predictions,    \* TelegramPredictionCache._predictions
    statistics,     \* TelegramPredictionCache._statistics
    coefficients,   \* TelegramPredictionCache._coefficients
    kibanaObjects,  \* KibanaObjectCache._objects
    lastCall,       \* what the last call of the operation under test was and did
    pc,             \* ContainerDetector.run: the position of the consumer loop
    inflight,       \* ContainerDetector.run: the message in flight
    log             \* the pulls, runs, publishes and acknowledgements so far

vars == <<now, dbUp, redisUp, kibanaUp, db, predictions, statistics, coefficients,
          kibanaObjects, lastCall, pc, inflight, log>>

(***************************************************************************)
(* Bounds of the model.                                                    *)
(***************************************************************************)
StartHour == 2     \* the hour of the day at which the process is constructed
MaxTicks == 2      \* how many times the clock advances
MaxAnomalies == 3  \* the longest accumulator _create_alert is given on its own
MaxMessages == 3   \* how many messages the consumer loop pulls
MaxStep == 61      \* the longest prediction step, in minutes, the rounding is given
MaxRoundHours == 2 \* the rounding is given timestamps of this many hours
MaxDescribed == 2  \* the longest list of anomalies _generate_description is given
TicksPerHour == 2  \* the clock advances by 1/TicksPerHour of an hour at a time

Null == -1
Unset == -2  \* the value of a column the table does not have
None == [none |-> TRUE]

Hour == 3600
Minute == 60
T0 == StartHour * Hour
TickStep == Hour \div TicksPerHour

(***************************************************************************)
(* Constructor parameters of TelegramPredictionCache (their defaults,      *)
(* except the two sizes, which are scaled down so that capacity-based      *)
(* displacement can happen with a store of a few rows).                    *)
(***************************************************************************)
prediction_step == 5
cache_big_size == 3
cache_small_size == 2
cache_big_update_window == 1 * Hour
cache_big_retention_window == 1 * Hour
cache_small_retention_window == 1 * Hour

(***************************************************************************)
(* cachetools.TTLCache.  A cache is the sequence of its links, oldest      *)
(* first: [key, val, expires, written].  `written` is the time of the      *)
(* __setitem__ that stored the link; the code does not keep it, expires is *)
(* what it reads.                                                          *)
(***************************************************************************)
\* TTLCache.expire(time): drops every link with not (time < expires)
TTLExpire(c, time) == SelectSeq(c, LAMBDA e : time < e.expires)

\* the keys iteration yields (`for row in self._statistics`): the live ones
TTLLive(c, time) == TTLExpire(c, time)

\* (mutant) a link counts as live up to and including its expiry time
TTLHas_Inclusive(c, k, time) == \E i \in 1..Len(c) : c[i].key = k /\ time <= c[i].expires

TTLHas(c, k, time) == \E i \in 1..Len(c) : c[i].key = k /\ time < c[i].expires

TTLLink(c, k) == c[CHOOSE i \in 1..Len(c) : c[i].key = k]

\* TTLCache.get(key): the value, or None when the key is missing or expired;
\* the link is left as it is
TTLGet(c, k, time) == IF TTLHas(c, k, time) THEN TTLLink(c, k).val ELSE None

\* TTLCache.__setitem__(key, value): expire, make room by popping the oldest
\* link when the key is new and the cache is full, then (re)insert at the end
TTLSet(c, k, v, time, ttl, maxsize) ==
    LET live == TTLExpire(c, time)
        rest == SelectSeq(live, LAMBDA e : e.key # k)
        isNew == Len(rest) = Len(live)
        room == IF isNew /\ Len(live) >= maxsize THEN Tail(live) ELSE rest
    IN  Append(room, [key |-> k, val |-> v, expires |-> time + ttl, written |-> time])

(***************************************************************************)
(* TelegramPredictionCache                                                 *)
(***************************************************************************)
\* (mutant) the seconds are kept
NearestDate_KeepSeconds(dt, step) ==
    dt - (((dt \div Minute) % 60) % step) * Minute

\* _get_nearest_date of a cache constructed with prediction_step = step:
\* dt.replace(minute=minutes - minutes % step, second=0)
NearestDate(dt, step) ==
    LET minutes == (dt \div Minute) % 60
        subtract_minutes == minutes % step
    IN  (dt - (dt % Hour)) + (minutes - subtract_minutes) * Minute

\* _get_nearest_date of the cache the container constructs
_get_nearest_date(dt) == NearestDate(dt, prediction_step)

\* (mutant) the refill rounds the date of a row down to its bucket
TruncateToMinute_ToBucket(dt) == NearestDate(dt, prediction_step)

\* row.date.replace(second=0, microsecond=0)
TruncateToMinute(dt) == dt - (dt % Minute)

PredictionKey(row) == <<TruncateToMinute(row.date), row.chat_id, row.delta>>
PredictionFields(row) == [views |-> row.views, views_upper |-> row.views_upper]

\* (mutant) a key already cached has the views of its dict updated in place
RECURSIVE StorePredictions_InPlace(_, _, _)
StorePredictions_InPlace(c, rows, time) ==
    IF rows = <<>> THEN c
    ELSE StorePredictions_InPlace(
            TTLSet(c, PredictionKey(Head(rows)),
                   IF TTLGet(c, PredictionKey(Head(rows)), time) # None
                   THEN [TTLGet(c, PredictionKey(Head(rows)), time)
                            EXCEPT !.views = Head(rows).views]
                   ELSE PredictionFields(Head(rows)),
                   time, cache_big_retention_window, cache_big_size),
            Tail(rows), time)

RECURSIVE StorePredictions(_, _, _)
StorePredictions(c, rows, time) ==
    IF rows = <<>> THEN c
    ELSE StorePredictions(
            TTLSet(c, PredictionKey(Head(rows)), PredictionFields(Head(rows)),
                   time, cache_big_retention_window, cache_big_size),
            Tail(rows), time)

\* (mutant) the refill swallows the failure of its query
_get_predictions_from_db_Swallow(c, table, up, time, from_date, to_date) ==
    IF ~up THEN [raised |-> FALSE, cache |-> c]
    ELSE [raised |-> FALSE,
          cache |-> StorePredictions(c,
                        SelectSeq(table, LAMBDA r : r.date >= from_date /\ r.date <= to_date),
                        time)]

\* _get_predictions_from_db(from_date, to_date): the query raises when the
\* store is down; otherwise every row of the range is written to the cache
_get_predictions_from_db(c, table, up, time, from_date, to_date) ==
    IF ~up THEN [raised |-> TRUE, cache |-> c]
    ELSE [raised |-> FALSE,
          cache |-> StorePredictions(c,
                        SelectSeq(table, LAMBDA r : r.date >= from_date /\ r.date <= to_date),
                        time)]

StatisticsKey(row) == <<row.date_from, row.date_to, row.chat_id, row.delta, row.metric>>
StatisticsFields(row) == [mean |-> row.mean, std |-> row.std]

RECURSIVE StoreStatistics(_, _, _)
StoreStatistics(c, rows, time) ==
    IF rows = <<>> THEN c
    ELSE StoreStatistics(
            TTLSet(c, StatisticsKey(Head(rows)), StatisticsFields(Head(rows)),
                   time, cache_small_retention_window, cache_small_size),
            Tail(rows), time)

\* _get_statistics_from_db(date)
_get_statistics_from_db(c, table, up, time, date) ==
    IF ~up THEN [raised |-> TRUE, cache |-> c]
    ELSE [raised |-> FALSE,
          cache |-> StoreStatistics(c,
                        SelectSeq(table, LAMBDA r : r.date_from <= date /\ r.date_to >= date),
                        time)]

CoefficientFields(row) ==
    [forwards_by_views |-> row.forwards_by_views,
     reaction_count_by_views |-> row.reaction_count_by_views,
     minimal_views_threshold |-> row.minimal_views_threshold]

RECURSIVE StoreCoefficients(_, _, _)
StoreCoefficients(c, rows, time) ==
    IF rows = <<>> THEN c
    ELSE StoreCoefficients(
            TTLSet(c, Head(rows).id, CoefficientFields(Head(rows)),
                   time, cache_small_retention_window, cache_small_size),
            Tail(rows), time)

\* _get_coefficients_from_db()
_get_coefficients_from_db(c, table, up, time) ==
    IF ~up THEN [raised |-> TRUE, cache |-> c]
    ELSE [raised |-> FALSE, cache |-> StoreCoefficients(c, table, time)]

\* What a get_* call hands back: ret (the entry or None), raised, hit (the
\* first lookup answered), queries (store queries issued), cache (the cache
\* afterwards)
Answer(ret, raised, hit, queries, cache) ==
    [ret |-> ret, raised |-> raised, hit |-> hit, queries |-> queries, cache |-> cache]

\* (mutant) a second miss sends a second query before giving up
PredictionAfterRefill_Retry(key, time, refill) ==
    IF refill.raised THEN Answer(None, TRUE, FALSE, 1, refill.cache)
    ELSE Answer(TTLGet(refill.cache, key, time), FALSE, FALSE,
                IF TTLGet(refill.cache, key, time) = None THEN 2 ELSE 1, refill.cache)

\* get_prediction after its refill: the second lookup, or the refill's raise
PredictionAfterRefill(key, time, refill) ==
    IF refill.raised THEN Answer(None, TRUE, FALSE, 1, refill.cache)
    ELSE Answer(TTLGet(refill.cache, key, time), FALSE, FALSE, 1, refill.cache)

\* get_prediction, the date already rounded
PredictionAt(c, table, up, time, key) ==
    IF TTLGet(c, key, time) # None
    THEN Answer(TTLGet(c, key, time), FALSE, TRUE, 0, c)
    ELSE PredictionAfterRefill(key, time,
             _get_predictions_from_db(c, table, up, time,
                                      key[1] - cache_big_update_window,
                                      key[1] + cache_big_update_window))

\* (mutant) the date is looked up as it is given, not rounded to its bucket
get_prediction_NoRounding(c, table, up, time, date, chat_id, delta) ==
    PredictionAt(c, table, up, time, <<date, chat_id, delta>>)

\* get_prediction(date, chat_id, delta)
get_prediction(c, table, up, time, date, chat_id, delta) ==
    PredictionAt(c, table, up, time, <<_get_nearest_date(date), chat_id, delta>>)

\* (mutant) a date equal to a bound of a window is inside the window
LatestStatisticsLink_Inclusive(c, time, date, chat_id, delta, metric) ==
    LET rows_for_date == SelectSeq(TTLLive(c, time), LAMBDA e :
            /\ e.key[1] <= date /\ date <= e.key[2]
            /\ e.key[3] = chat_id /\ e.key[4] = delta /\ e.key[5] = metric)
        n == Len(rows_for_date)
        latest == CHOOSE i \in 1..n :
            /\ \A j \in 1..n : rows_for_date[j].key[2] <= rows_for_date[i].key[2]
            /\ \A j \in (i+1)..n : rows_for_date[j].key[2] < rows_for_date[i].key[2]
    IN  IF n > 0 THEN rows_for_date[latest] ELSE None

\* get_statistics.get_latest_statistics(): the cached windows with
\* row[0] < date < row[1] and the same chat, delta and metric, collected in a
\* dict keyed by row[1]; the one under the greatest row[1] (the link, or None)
LatestStatisticsLink(c, time, date, chat_id, delta, metric) ==
    LET rows_for_date == SelectSeq(TTLLive(c, time), LAMBDA e :
            /\ e.key[1] < date /\ date < e.key[2]
            /\ e.key[3] = chat_id /\ e.key[4] = delta /\ e.key[5] = metric)
        n == Len(rows_for_date)
        latest == CHOOSE i \in 1..n :
            /\ \A j \in 1..n : rows_for_date[j].key[2] <= rows_for_date[i].key[2]
            /\ \A j \in (i+1)..n : rows_for_date[j].key[2] < rows_for_date[i].key[2]
    IN  IF n > 0 THEN rows_for_date[latest] ELSE None

get_latest_statistics(c, time, date, chat_id, delta, metric) ==
    LET link == LatestStatisticsLink(c, time, date, chat_id, delta, metric)
    IN  IF link # None THEN link.val ELSE None

\* get_statistics after its refill
StatisticsAfterRefill(time, date, chat_id, delta, metric, refill) ==
    IF refill.raised THEN Answer(None, TRUE, FALSE, 1, refill.cache)
    ELSE Answer(get_latest_statistics(refill.cache, time, date, chat_id, delta, metric),
                FALSE, FALSE, 1, refill.cache)

\* get_statistics(date, chat_id, delta, metric)
get_statistics(c, table, up, time, date, chat_id, delta, metric) ==
    IF get_latest_statistics(c, time, date, chat_id, delta, metric) # None
    THEN Answer(get_latest_statistics(c, time, date, chat_id, delta, metric),
                FALSE, TRUE, 0, c)
    ELSE StatisticsAfterRefill(time, date, chat_id, delta, metric,
                               _get_statistics_from_db(c, table, up, time, date))

\* (mutant) a second miss sends a second query before giving up
CoefficientsAfterRefill_Retry(time, chat_id, refill) ==
    IF refill.raised THEN Answer(None, TRUE, FALSE, 1, refill.cache)
    ELSE Answer(TTLGet(refill.cache, chat_id, time), FALSE, FALSE,
                IF TTLGet(refill.cache, chat_id, time) = None THEN 2 ELSE 1, refill.cache)

\* get_coefficients after its refill
CoefficientsAfterRefill(time, chat_id, refill) ==
    IF refill.raised THEN Answer(None, TRUE, FALSE, 1, refill.cache)
    ELSE Answer(TTLGet(refill.cache, chat_id, time), FALSE, FALSE, 1, refill.cache)

\* get_coefficients(chat_id)
get_coefficients(c, table, up, time, chat_id) ==
    IF TTLGet(c, chat_id, time) # None
    THEN Answer(TTLGet(c, chat_id, time), FALSE, TRUE, 0, c)
    ELSE CoefficientsAfterRefill(time, chat_id, _get_coefficients_from_db(c, table, up, time))

(***************************************************************************)
(* Numbers.  A float is a fraction [n, d] with d > 0 (an int n is [n, 1]); *)
(* a score is kept in thousandths (1.0 is 1000).                           *)
(***************************************************************************)
Rat(n, d) == [n |-> n, d |-> d]
RatLess(a, b) == a.n * b.d < b.n * a.d
RatSub(a, b) == Rat(a.n * b.d - b.n * a.d, a.d * b.d)
RatMul(a, b) == Rat(a.n * b.n, a.d * b.d)
\* a / b for b # 0, the denominator kept positive
RatDiv(a, b) == IF b.n > 0 THEN Rat(a.n * b.d, a.d * b.n) ELSE Rat(-(a.n * b.d), -(a.d * b.n))
RatFloor(a) == a.n \div a.d

ScoreOne == 1000

\* 1 / (1 + np.exp(x)) in thousandths, rounded down, x taken at its integer
\* floor.  In double precision the quotient is exactly 1.0 once exp(x) is
\* below 2^-53 (x under about -36.7) and exactly 0 only when exp overflows;
\* in between it is below 1.0, 999 here.
Logistic(x) ==
    LET k == RatFloor(x)
        table == <<999, 997, 993, 982, 952, 880, 731, 500, 268, 119, 47, 17, 6, 2, 0>>
    IN  IF k < -37 THEN ScoreOne
        ELSE IF k < -7 THEN ScoreOne - 1
        ELSE IF k > 7 THEN 0
        ELSE table[k + 8]

(***************************************************************************)
(* types/anomaly.py                                                        *)
(***************************************************************************)
Anomaly(metric_name, metric_value, expected_value, score, weight) ==
    [metric_name |-> metric_name, metric_value |-> metric_value,
     expected_value |-> expected_value, score |-> score, _weight |-> weight]

DefaultWeight == 100

(***************************************************************************)
(* detectors/telegram_metrics.py                                           *)
(***************************************************************************)
MetricMustHaveFields == <<"chat_id", "delta", "loading_date", "views", "forwards", "reaction_count">>

WeightPredictedMetrics == 200
WeightStaticMetrics == 100

\* bool(article.get(key)): a missing key, None, 0 and "" are falsy.  The two
\* timestamps are non-empty text in the payload, so only their absence is falsy
\* (mutant) a field counts as given whenever it is not None
Truthy_NotNone(article, key) ==
    IF key \in {"country", "source"} THEN article[key] # "None" ELSE article[key] # Null

Truthy(article, key) ==
    IF key \in {"country", "source"} THEN article[key] \notin {"None", ""}
    ELSE IF key \in {"loading_date", "date"} THEN article[key] # Null
    ELSE article[key] \notin {Null, 0}

\* (mutant) any() where the code has all()
CheckArticleFields_Any(article, fields) == \E i \in 1..Len(fields) : Truthy(article, fields[i])

\* _check_article_fields: all(article.get(key) for key in must_have_fields)
CheckArticleFields(article, fields) == \A i \in 1..Len(fields) : Truthy(article, fields[i])

\* _score_static_metrics(metric_value, expected_value)
_score_static_metrics(metric_value, expected_value) ==
    IF expected_value.n = 0 THEN [raised |-> TRUE, score |-> 0]
    ELSE LET deviation == RatDiv(metric_value, expected_value)
         IN  [raised |-> FALSE,
              score |-> Logistic(RatMul(RatSub(expected_value, deviation), Rat(10, 1)))]

\* _score_predicted_metrics(metric_value, expected_value, statistics)
_score_predicted_metrics(metric_value, expected_value, stat) ==
    IF expected_value = 0 THEN [raised |-> TRUE, score |-> 0]
    ELSE IF stat # None /\ stat.std.n = 0 THEN [raised |-> TRUE, score |-> 0]
    ELSE LET deviation == Rat(metric_value, expected_value)
             z_score == IF stat # None
                        THEN RatDiv(RatSub(deviation, stat.mean), stat.std)
                        ELSE deviation
             \* -z_score / 1.5 + 2
             x == RatSub(Rat(2, 1), RatMul(z_score, Rat(2, 3)))
         IN  [raised |-> FALSE, score |-> Logistic(x)]

\* What a step of a detector hands on: whether it raised, the accumulator, the
\* caches (st), the cache and key-value lookups made and the store queries
Step(raised, anomalies, st, lookups, queries) ==
    [raised |-> raised, anomalies |-> anomalies, st |-> st,
     lookups |-> lookups, queries |-> queries]

\* coefficients.get('minimal_views_threshold', 0): 0 when the dict has no
\* such key, the value of the key otherwise, None (Null) included
ThresholdOf(row) ==
    IF row.minimal_views_threshold = Unset THEN 0 ELSE row.minimal_views_threshold

\* (mutant) the views are not compared with the threshold
MinimalThresholdGiven_NoGate(article, st, g) ==
    [raised |-> g.raised \/ (g.ret # None /\ ThresholdOf(g.ret) = Null),
     ok |-> ~g.raised /\ g.ret # None /\ ThresholdOf(g.ret) # Null,
     st |-> [st EXCEPT !.coefficients = g.cache],
     lookups |-> 1,
     queries |-> g.queries]

\* _check_article_minimal_threshold, given what get_coefficients answered (g):
\* ok is its return value; views < None is a TypeError
MinimalThresholdGiven(article, st, g) ==
    [raised |-> g.raised \/ (g.ret # None /\ ThresholdOf(g.ret) = Null),
     ok |-> /\ ~g.raised
            /\ g.ret # None
            /\ ThresholdOf(g.ret) # Null
            /\ ~(article.views < ThresholdOf(g.ret)),
     st |-> [st EXCEPT !.coefficients = g.cache],
     lookups |-> 1,
     queries |-> g.queries]

\* _check_article_minimal_threshold(article)
_check_article_minimal_threshold(article, st, env) ==
    MinimalThresholdGiven(article, st,
        get_coefficients(st.coefficients, env.db.coefficients, env.dbUp, env.now,
                         article.chat_id))

\* (mutant) a ratio equal to the coefficient is an anomaly too
StaticCheck_Inclusive(name, ratio, expected, anomalies) ==
    IF RatLess(ratio, expected) \/ _score_static_metrics(ratio, expected).raised
    THEN [raised |-> ~RatLess(ratio, expected), anomalies |-> anomalies]
    ELSE [raised |-> FALSE,
          anomalies |-> Append(anomalies,
                               Anomaly(name, ratio, expected,
                                       _score_static_metrics(ratio, expected).score,
                                       WeightStaticMetrics))]

\* the static check of one ratio: the accumulator with the anomaly appended if
\* the ratio is above the coefficient; the score raises on a coefficient 0
StaticCheck(name, ratio, expected, anomalies) ==
    IF ~RatLess(expected, ratio) THEN [raised |-> FALSE, anomalies |-> anomalies]
    ELSE [raised |-> _score_static_metrics(ratio, expected).raised,
          anomalies |->
              IF _score_static_metrics(ratio, expected).raised THEN anomalies
              ELSE Append(anomalies,
                          Anomaly(name, ratio, expected,
                                  _score_static_metrics(ratio, expected).score,
                                  WeightStaticMetrics))]

\* the second ratio of _check_static_metrics, given the check of the first (f)
StaticAfterForwards(article, coeffs, f, st, queries) ==
    IF f.raised THEN Step(TRUE, f.anomalies, st, 1, queries)
    ELSE Step(StaticCheck("reaction_count_by_views",
                          Rat(article.reaction_count, article.views),
                          coeffs.reaction_count_by_views, f.anomalies).raised,
              StaticCheck("reaction_count_by_views",
                          Rat(article.reaction_count, article.views),
                          coeffs.reaction_count_by_views, f.anomalies).anomalies,
              st, 1, queries)

\* _check_static_metrics, given what get_coefficients answered (g)
StaticMetricsGiven(article, anomalies, st, g) ==
    IF g.raised \/ g.ret = None
    THEN Step(g.raised, anomalies, [st EXCEPT !.coefficients = g.cache], 1, g.queries)
    ELSE StaticAfterForwards(article, g.ret,
             StaticCheck("forwards_by_views", Rat(article.forwards, article.views),
                         g.ret.forwards_by_views, anomalies),
             [st EXCEPT !.coefficients = g.cache], g.queries)

\* _check_static_metrics(article, anomalies)
_check_static_metrics(article, anomalies, st, env) ==
    StaticMetricsGiven(article, anomalies, st,
        get_coefficients(st.coefficients, env.db.coefficients, env.dbUp, env.now,
                         article.chat_id))

\* the views anomaly of _check_predicted_metrics, given its score
ViewsAnomaly(article, prediction, score) ==
    Anomaly("views", Rat(article.views, 1), Rat(prediction.views, 1), score.score,
            WeightPredictedMetrics)

\* _check_predicted_metrics, given what get_prediction (p) and get_statistics
\* (s) answered
PredictedMetricsGiven(article, anomalies, st, p, s) ==
    IF s.raised \/ p.ret = None \/ ~(article.views > p.ret.views_upper)
    THEN Step(s.raised, anomalies, st, 2, p.queries + s.queries)
    ELSE IF _score_predicted_metrics(article.views, p.ret.views, s.ret).raised
    THEN Step(TRUE, anomalies, st, 2, p.queries + s.queries)
    ELSE Step(FALSE,
              Append(anomalies,
                     ViewsAnomaly(article, p.ret,
                                  _score_predicted_metrics(article.views, p.ret.views, s.ret))),
              st, 2, p.queries + s.queries)

\* _check_predicted_metrics after get_statistics (s)
PredictedAfterStatistics(article, anomalies, st, p, s) ==
    PredictedMetricsGiven(article, anomalies, [st EXCEPT !.statistics = s.cache], p, s)

\* _check_predicted_metrics from its call of get_statistics on, given what
\* get_prediction answered (p)
PredictedAfterPrediction(article, anomalies, st, env, p) ==
    IF p.raised THEN Step(TRUE, anomalies, [st EXCEPT !.predictions = p.cache], 1, p.queries)
    ELSE PredictedAfterStatistics(article, anomalies,
             [st EXCEPT !.predictions = p.cache], p,
             get_statistics(st.statistics, env.db.statistics, env.dbUp, env.now,
                            article.loading_date, article.chat_id, article.delta, "views"))

\* _check_predicted_metrics(article, anomalies)
_check_predicted_metrics(article, anomalies, st, env) ==
    PredictedAfterPrediction(article, anomalies, st, env,
        get_prediction(st.predictions, env.db.predictions, env.dbUp, env.now,
                       article.loading_date, article.chat_id, article.delta))

\* the sum of the lookups and queries of two consecutive steps
Then(first, second) ==
    Step(second.raised, second.anomalies, second.st, first.lookups + second.lookups,
         first.queries + second.queries)

\* run after _check_static_metrics (a)
MetricAfterStatic(article, env, a) ==
    IF a.raised THEN a
    ELSE Then(a, _check_predicted_metrics(article, a.anomalies, a.st, env))

\* run after _check_article_minimal_threshold (t)
MetricAfterThreshold(article, anomalies, env, t) ==
    IF t.raised \/ ~t.ok THEN Step(t.raised, anomalies, t.st, t.lookups, t.queries)
    ELSE Then(t, MetricAfterStatic(article, env,
                                   _check_static_metrics(article, anomalies, t.st, env)))

\* TelegramMetricAnomalyDetector.run(article, anomalies)
MetricRun(article, anomalies, st, env) ==
    IF ~CheckArticleFields(article, MetricMustHaveFields)
    THEN Step(FALSE, anomalies, st, 0, 0)
    ELSE MetricAfterThreshold(article, anomalies, env,
                              _check_article_minimal_threshold(article, st, env))

(***************************************************************************)
(* detectors/telegram_repost.py                                            *)
(***************************************************************************)
RepostMustHaveFields == <<"country", "forward_from_chat_id">>

\* __none_country = ('xx', None)
NoneCountry == {"xx", "None"}

\* redis hget('tg_countries', field): the reply for the field ("None" when the
\* hash has no such field), or a raise when the server is unreachable.  A
\* reply of a client without decode_responses is bytes, written "b'..'":
\* Python finds it equal to no str
hget(env, field) ==
    IF ~env.redisUp THEN [raised |-> TRUE, val |-> "None"]
    ELSE [raised |-> FALSE,
          val |-> IF field \in DOMAIN env.redis THEN env.redis[field] ELSE "None"]

\* (mutant) the sentinel countries are compared like any other
_check_original_chat_country_NoSentinel(article, forward_country) ==
    ~(article.country # forward_country)

\* _check_original_chat_country(article), given the reply of hget
_check_original_chat_country(article, forward_country) ==
    LET original_country == article.country
    IN  IF original_country \in NoneCountry \/ forward_country \in NoneCountry
        THEN FALSE
        ELSE ~(original_country # forward_country)

\* run after the field check, given the reply of hget
RepostGiven(article, anomalies, st, reply) ==
    IF reply.raised THEN Step(TRUE, anomalies, st, 1, 0)
    ELSE IF _check_original_chat_country(article, reply.val)
    THEN Step(FALSE,
              Append(anomalies, Anomaly("forward", Rat(1, 1), Rat(0, 1), ScoreOne,
                                        DefaultWeight)),
              st, 1, 0)
    ELSE Step(FALSE, anomalies, st, 1, 0)

\* TelegramRepostAnomalyDetector.run(article, anomalies)
RepostRun(article, anomalies, st, env) ==
    IF ~CheckArticleFields(article, RepostMustHaveFields)
    THEN Step(FALSE, anomalies, st, 0, 0)
    ELSE RepostGiven(article, anomalies, st, hget(env, article.forward_from_chat_id))

(***************************************************************************)
(* utils/kibana_object_cache.py and utils/kibana_link_generator.py         *)
(***************************************************************************)
kibana_cache_size == 1000
kibana_cache_retention_window == 24 * Hour
time_window == 5 * Minute

RECURSIVE StoreObjects(_, _, _)
StoreObjects(c, objects, time) ==
    IF objects = <<>> THEN c
    ELSE StoreObjects(
            TTLSet(c, Head(objects).index, [views |-> Head(objects).dataviews], time,
                   kibana_cache_retention_window, kibana_cache_size),
            Tail(objects), time)

\* KibanaObjectCache._setup(): the requests raise when Kibana is unreachable;
\* env.kibana is what they answer, grouped by index: <<[index, dataviews]>>,
\* dataviews a sequence of <<dataview_id, space_id>>
_setup(c, env) ==
    IF ~env.kibanaUp THEN [raised |-> TRUE, cache |-> c]
    ELSE [raised |-> FALSE, cache |-> StoreObjects(c, env.kibana, env.now)]

\* get_dataviews_by_index after its _setup (again)
DataviewsAfterSetup(c, env, index, again) ==
    IF again.raised THEN [raised |-> TRUE, ret |-> None, cache |-> c]
    ELSE [raised |-> FALSE, ret |-> TTLGet(again.cache, index, env.now),
          cache |-> again.cache]

\* `if space:` a dict that is there and not empty
TruthyDict(space) == space # None /\ space.views # <<>>

\* KibanaObjectCache.get_dataviews_by_index(index): ret is the dict of the
\* index, None when it is still unknown after the refresh
get_dataviews_by_index(c, env, index) ==
    IF TruthyDict(TTLGet(c, index, env.now))
    THEN [raised |-> FALSE, ret |-> TTLGet(c, index, env.now), cache |-> c]
    ELSE DataviewsAfterSetup(c, env, index, _setup(c, env))

\* KibanaLinkGenerator._url_builder
_url_builder(query, space_id, dataview_id, from_date, to_date) ==
    [space_id |-> space_id, dataview_id |-> dataview_id, query |-> query,
     from_date |-> from_date, to_date |-> to_date]

\* generate, given what get_dataviews_by_index answered (d): dataviews.items()
\* raises when that is None
GenerateGiven(d, mapping, date) ==
    IF d.raised \/ d.ret = None THEN [raised |-> TRUE, urls |-> <<>>, cache |-> d.cache]
    ELSE [raised |-> FALSE,
          urls |-> [i \in 1..Len(d.ret.views) |->
                      _url_builder(mapping, d.ret.views[i][2], d.ret.views[i][1],
                                   date - time_window, date + time_window)],
          cache |-> d.cache]

\* KibanaLinkGenerator.generate(destination, mapping, date)
generate(c, env, destination, mapping, date) ==
    GenerateGiven(get_dataviews_by_index(c, env, destination), mapping, date)

(***************************************************************************)
(* detector.py: AnomalyDetector                                            *)
(***************************************************************************)
\* the detectors the container configures, in its order
Detectors == <<"metric", "repost">>

DetectorRun(name, article, anomalies, st, env) ==
    IF name = "metric" THEN MetricRun(article, anomalies, st, env)
    ELSE RepostRun(article, anomalies, st, env)

\* _run_detectors(message): the for loop over the detectors from position i,
\* acc being what the detectors before i handed on and ran their names; a
\* raise leaves the loop
RECURSIVE RunDetectorsFrom(_, _, _, _, _, _)
DetectorsAfter(detectors, i, article, ran, env, r) ==
    IF r.raised THEN r @@ [ran |-> ran]
    ELSE RunDetectorsFrom(detectors, i + 1, article, r, ran, env)

RunDetectorsFrom(detectors, i, article, acc, ran, env) ==
    IF i > Len(detectors) THEN acc @@ [ran |-> ran]
    ELSE DetectorsAfter(detectors, i, article, Append(ran, detectors[i]), env,
             Then(acc, DetectorRun(detectors[i], article, acc.anomalies, acc.st, env)))

_run_detectors(detectors, message, st, env) ==
    RunDetectorsFrom(detectors, 1, message.payload, Step(FALSE, <<>>, st, 0, 0), <<>>, env)

\* (mutant) an unstable sort: of equal scores the later one comes first
RECURSIVE InsertByScore_BeforeEquals(_, _)
InsertByScore_BeforeEquals(sorted, a) ==
    IF sorted = <<>> THEN <<a>>
    ELSE IF Head(sorted).score > a.score
    THEN <<Head(sorted)>> \o InsertByScore_BeforeEquals(Tail(sorted), a)
    ELSE <<a>> \o sorted

\* sorted(anomalies, key=lambda x: x.score, reverse=True): stable, so equal
\* scores keep their order
RECURSIVE InsertByScore(_, _)
InsertByScore(sorted, a) ==
    IF sorted = <<>> THEN <<a>>
    ELSE IF Head(sorted).score >= a.score THEN <<Head(sorted)>> \o InsertByScore(Tail(sorted), a)
    ELSE <<a>> \o sorted

RECURSIVE SortedByScore(_)
SortedByScore(anomalies) ==
    IF anomalies = <<>> THEN <<>>
    ELSE InsertByScore(SortedByScore(SubSeq(anomalies, 1, Len(anomalies) - 1)),
                       anomalies[Len(anomalies)])

\* the scores of a sequence of anomalies added up, the last one first
RECURSIVE SumOfScores(_)
SumOfScores(anomalies) ==
    IF anomalies = <<>> THEN 0
    ELSE anomalies[Len(anomalies)].score
         + SumOfScores(SubSeq(anomalies, 1, Len(anomalies) - 1))

\* (mutant) the total is clamped to 1.0
_calculate_total_anomaly_score_Clamped(anomalies) ==
    IF SumOfScores(anomalies) > ScoreOne THEN ScoreOne ELSE SumOfScores(anomalies)

\* _calculate_total_anomaly_score: sum([anomaly.score for anomaly in anomalies])
RECURSIVE _calculate_total_anomaly_score(_)
_calculate_total_anomaly_score(anomalies) ==
    IF anomalies = <<>> THEN 0
    ELSE Head(anomalies).score + _calculate_total_anomaly_score(Tail(anomalies))

\* _domain.get(method, 'Unknown')
Domain(method) ==
    IF method \in {"TelegramEngagementExecutor", "TelegramListener"} THEN "Telegram"
    ELSE IF method = "opoint" THEN "Web"
    ELSE "Unknown"

\* _anomaly_colors_by_score, in thousandths
ScoreRed == 750
ScoreYellow == 250
ScoreGreen == 0

\* (mutant) a total equal to a threshold takes the higher severity
Prefix_Inclusive(total_score) ==
    IF total_score >= ScoreRed THEN "Critical anomaly"
    ELSE IF total_score >= ScoreYellow THEN "Major anomaly"
    ELSE IF total_score >= ScoreGreen THEN "Minor anomaly"
    ELSE "Warning anomaly"

\* the severity prefix of _generate_description
Prefix(total_score) ==
    IF total_score > ScoreRed THEN "Critical anomaly"
    ELSE IF total_score > ScoreYellow THEN "Major anomaly"
    ELSE IF total_score > ScoreGreen THEN "Minor anomaly"
    ELSE "Warning anomaly"

\* f"{x:.1f}" and f"{x:.2f}" of an x >= 0: its digits, rounded to that many
\* decimal places (a tie, which Python rounds by the binary value, goes up)
Fixed(x, places) ==
    LET scale == IF places = 1 THEN 10 ELSE 100
        t == (2 * scale * x.n + x.d) \div (2 * x.d)
    IN  [whole |-> t \div scale, frac |-> t % scale, places |-> places]

\* the description point of a numeric anomaly
DescriptionPoint(anomaly) ==
    IF anomaly.expected_value.n = 0
    THEN [metric_name |-> anomaly.metric_name, number |-> Fixed(anomaly.expected_value, 2),
          text |-> "x expected"]
    ELSE [metric_name |-> anomaly.metric_name,
          number |-> Fixed(RatDiv(anomaly.metric_value, anomaly.expected_value), 1),
          text |-> "x higher"]

\* _generate_description(anomalies, message, total_score) for a non-empty list
\* of numeric anomalies: "<prefix> in <points> found for <source>[ <delta>
\* seconds after publication]", kept in its parts
_generate_description(anomalies, message, total_score) ==
    [prefix |-> Prefix(total_score),
     points |-> [i \in 1..Len(anomalies) |-> DescriptionPoint(anomalies[i])],
     source |-> message.payload.source,
     additional_info |-> IF message.payload.delta \notin {Null, 0}
                         THEN message.payload.delta ELSE Null]

\* the Alert of _create_alert, given the sorted anomalies, their total and
\* the links
AlertOf(message, date, anomalies, total_score, kibana_urls) ==
    [_article_id |-> message.metadata.id,
     date |-> date,
     score |-> total_score,
     domain |-> Domain(message.metadata.method),
     source |-> message.payload.source,
     description |-> _generate_description(anomalies, message, total_score),
     url |-> IF Len(kibana_urls) > 0 THEN kibana_urls[1] ELSE None,
     field_name |-> anomalies[1].metric_name,
     anomaly_value |-> anomalies[1].metric_value,
     expected_value |-> anomalies[1].expected_value,
     _all_anomalies |-> anomalies]

\* str(v): a Python str, made of v
Str(v) == [type |-> "str", of |-> v]

\* Anomaly.to_dict(): {k: str(v) for k, v in asdict(self).items()}
AnomalyToDict(anomaly) ==
    [metric_name |-> Str(anomaly.metric_name),
     metric_value |-> Str(anomaly.metric_value),
     expected_value |-> Str(anomaly.expected_value),
     score |-> Str(anomaly.score),
     _weight |-> Str(anomaly._weight)]

\* Alert.to_dict(): {k: str(v) for k, v in asdict(self).items()}.  The value
\* under _all_anomalies is the list [anomaly.to_dict() for anomaly in
\* anomalies] of _create_alert, and str() is applied to that list as to
\* every other value
AlertToDict(alert) ==
    [id |-> Str("uuid4"),
     date |-> Str(alert.date),
     score |-> Str(alert.score),
     domain |-> Str(alert.domain),
     source |-> Str(alert.source),
     description |-> Str(alert.description),
     url |-> Str(alert.url),
     field_name |-> Str(alert.field_name),
     anomaly_value |-> Str(alert.anomaly_value),
     expected_value |-> Str(alert.expected_value),
     _article_id |-> Str(alert._article_id),
     _all_anomalies |->
         Str([type |-> "list",
              items |-> [i \in 1..Len(alert._all_anomalies) |->
                            AnomalyToDict(alert._all_anomalies[i])]])]

\* json.dumps of a dict: a str becomes a JSON string, a list a JSON array
json_dumps(d) ==
    [k \in DOMAIN d |->
        IF d[k].type = "str" THEN [json |-> "string", chars |-> d[k].of]
        ELSE [json |-> "array", items |-> d[k].items]]

\* json.loads of a JSON object: a JSON string becomes a str, an array a list
json_loads(j) ==
    [k \in DOMAIN j |->
        IF j[k].json = "string" THEN [type |-> "str", of |-> j[k].chars]
        ELSE [type |-> "list", items |-> j[k].items]]

\* _create_alert after generate (kibana)
AlertAfterLinks(message, date, anomalies, kibana) ==
    IF kibana.raised
    THEN [raised |-> TRUE, alert |-> None, kibanaObjects |-> kibana.cache, linkCalls |-> 1]
    ELSE [raised |-> FALSE,
          alert |-> AlertOf(message, date, anomalies,
                            _calculate_total_anomaly_score(anomalies), kibana.urls),
          kibanaObjects |-> kibana.cache, linkCalls |-> 1]

\* message['payload'].get('loading_date', message['payload']['date'])
EffectiveDate(payload) ==
    IF payload.loading_date # Null THEN payload.loading_date ELSE payload.date

QueryMapping(payload) ==
    IF payload.delta \notin {Null, 0} THEN <<payload.source, payload.delta>>
    ELSE <<payload.source>>

\* _create_alert(message, anomalies).  The alert, or a raise of the link
\* generator or of a subscript (destination[0] of an empty list, the eager
\* message['payload']['date'] of a payload without date)
_create_alert(message, anomalies, kc, env) ==
    IF message.metadata.destination = <<>> \/ message.payload.date = Null
    THEN [raised |-> TRUE, alert |-> None, kibanaObjects |-> kc, linkCalls |-> 0]
    ELSE AlertAfterLinks(message, EffectiveDate(message.payload), SortedByScore(anomalies),
             generate(kc, env, message.metadata.destination[1],
                      QueryMapping(message.payload), EffectiveDate(message.payload)))

\* what run hands back: result is "None", "Alert" or "raised"
RunResult(result, raisedIn, d, a) ==
    [result |-> result, alert |-> a.alert, anomalies |-> d.anomalies, st |-> d.st,
     kibanaObjects |-> a.kibanaObjects, ran |-> d.ran, lookups |-> d.lookups,
     queries |-> d.queries, linkCalls |-> a.linkCalls, raisedIn |-> raisedIn]

NoAlert(kc) == [raised |-> FALSE, alert |-> None, kibanaObjects |-> kc, linkCalls |-> 0]

\* run after _create_alert (a)
RunAfterAlert(d, a) ==
    IF a.raised THEN RunResult("raised", "_create_alert", d, a)
    ELSE RunResult("Alert", "nothing", d, a)

\* run after _run_detectors (d)
RunAfterDetectors(message, kc, env, d) ==
    IF d.raised THEN RunResult("raised", d.ran[Len(d.ran)], d, NoAlert(kc))
    ELSE IF Len(d.anomalies) = 0 THEN RunResult("None", "nothing", d, NoAlert(kc))
    ELSE RunAfterAlert(d, _create_alert(message, d.anomalies, kc, env))

\* AnomalyDetector.run(message)
run(detectors, message, st, kc, env) ==
    RunAfterDetectors(message, kc, env, _run_detectors(detectors, message, st, env))

\* (mutant) the field check takes the fields out of the dict (pop for get)
ArticleAfterRun_Pop(name, article) ==
    IF name = "metric" THEN article
    ELSE [k \in DOMAIN article \ {"country", "forward_from_chat_id"} |-> article[k]]

\* The article dict after detector.run(article, anomalies): the detectors
\* read it with article.get(key) and article[key]; none assigns to a key,
\* deletes or pops one
ArticleAfterRun(name, article) == article

\* the article after the detectors that ran, each handed the same dict
RECURSIVE ArticleAfterDetectors(_, _)
ArticleAfterDetectors(ran, article) ==
    IF ran = <<>> THEN article
    ELSE ArticleAfterDetectors(Tail(ran), ArticleAfterRun(Head(ran), article))

\* The message dict after _create_alert(message, anomalies): sorted() builds
\* a new list, destination = [destination] rebinds a local name, the rest
\* reads message['metadata'] and message['payload']
MessageAfterAlert(message) == message

\* the message after run handed back r: article = message['payload'] is the
\* dict of the message, not a copy
MessageAfterRun(message, r) ==
    IF r.result = "Alert" \/ r.raisedIn = "_create_alert"
    THEN MessageAfterAlert([message EXCEPT !.payload = ArticleAfterDetectors(r.ran, @)])
    ELSE [message EXCEPT !.payload = ArticleAfterDetectors(r.ran, @)]

(***************************************************************************)
(* The environment: the contents of the relational store, of the redis     *)
(* hash tg_countries and of Kibana.                                        *)
(***************************************************************************)
PredictionRow(date, chat_id, delta, views, views_upper) ==
    [date |-> date, chat_id |-> chat_id, delta |-> delta, views |-> views,
     views_upper |-> views_upper]

StatisticsRow(date_from, date_to, chat_id, delta, metric, mean, std) ==
    [date_from |-> date_from, date_to |-> date_to, chat_id |-> chat_id, delta |-> delta,
     metric |-> metric, mean |-> mean, std |-> std]

CoefficientRow(id, forwards_by_views, reaction_count_by_views, minimal_views_threshold) ==
    [id |-> id, forwards_by_views |-> forwards_by_views,
     reaction_count_by_views |-> reaction_count_by_views,
     minimal_views_threshold |-> minimal_views_threshold]

PredA == PredictionRow(T0 + 5 * Minute, 1, 60, 100, 150)
PredB == PredictionRow(T0 + 7 * Minute + 7, 1, 60, 100, 120)
PredC == PredictionRow(T0 + 3 * Hour, 1, 60, 50, 80)
PredD == PredictionRow(T0 + 10 * Minute, 2, 60, 0, 10)

StatA == StatisticsRow(T0 - Hour, T0 + Hour, 1, 60, "views", Rat(1, 1), Rat(1, 2))
StatB == StatisticsRow(T0, T0 + 2 * Hour, 1, 60, "views", Rat(2, 1), Rat(1, 1))
StatC == StatisticsRow(T0 - Hour, T0 + 4 * Hour, 2, 60, "views", Rat(1, 1), Rat(0, 1))

CoefA == CoefficientRow(1, Rat(1, 10), Rat(1, 5), 100)
CoefB == CoefficientRow(2, Rat(0, 1), Rat(1, 5), 0)
CoefC == CoefficientRow(3, Rat(1, 10), Rat(1, 5), Null)

\* two sources with a prediction for the bucket of T0 + 5 minutes: the one
\* of source 4 expects 0 views, the statistics of source 5 have the std 0
PredE == PredictionRow(T0 + 5 * Minute, 4, 60, 0, 10)
PredF == PredictionRow(T0 + 5 * Minute, 5, 60, 100, 150)
StatD == StatisticsRow(T0 - Hour, T0 + Hour, 5, 60, "views", Rat(1, 1), Rat(0, 1))
CoefD == CoefficientRow(4, Rat(1, 10), Rat(1, 5), Unset)
CoefE == CoefficientRow(5, Rat(1, 10), Rat(1, 5), Unset)

Databases ==
    { [predictions |-> <<PredA, PredB, PredC>>, statistics |-> <<StatA, StatB>>,
       coefficients |-> <<CoefA, CoefB>>],
      [predictions |-> <<PredA, PredB, PredD, PredC>>, statistics |-> <<StatA, StatB, StatC>>,
       coefficients |-> <<CoefA, CoefB, CoefC>>],
      [predictions |-> <<PredE, PredF>>, statistics |-> <<StatD>>,
       coefficients |-> <<CoefD, CoefE>>],
      [predictions |-> <<>>, statistics |-> <<>>, coefficients |-> <<>>] }

\* hget tg_countries <chat id>
TgCountries ==
    (11 :> "US") @@ (12 :> "FR") @@ (13 :> "xx") @@ (14 :> "b'US'") @@ (16 :> "b'xx'")

\* the data views of Kibana, by index
KibanaRemote == << [index |-> "dm_tg", dataviews |-> << <<"dv1", "default">>, <<"dv2", "team">> >>] >>

Env == [db |-> db, dbUp |-> dbUp, now |-> now, redis |-> TgCountries, redisUp |-> redisUp,
        kibana |-> KibanaRemote, kibanaUp |-> kibanaUp]

Caches == [predictions |-> predictions, statistics |-> statistics, coefficients |-> coefficients]

(***************************************************************************)
(* Construction: TelegramPredictionCache.__init__ and                      *)
(* KibanaObjectCache.__init__ fill the caches at T0, with every service up *)
(* (a failure there ends the process before it handles anything).          *)
(***************************************************************************)
InitServices ==
    /\ now = T0
    /\ dbUp = TRUE /\ redisUp = TRUE /\ kibanaUp = TRUE
    /\ db \in Databases
    /\ predictions = _get_predictions_from_db(<<>>, db.predictions, TRUE, T0,
                         T0 - cache_big_update_window, T0 + cache_big_update_window).cache
    /\ statistics = _get_statistics_from_db(<<>>, db.statistics, TRUE, T0, T0).cache
    /\ coefficients = _get_coefficients_from_db(<<>>, db.coefficients, TRUE, T0).cache
    /\ kibanaObjects = StoreObjects(<<>>, KibanaRemote, T0)

NoCall == [op |-> "none"]

\* the clock advances
Tick ==
    /\ now < T0 + MaxTicks * TickStep
    /\ now' = now + TickStep
    /\ UNCHANGED <<dbUp, redisUp, kibanaUp, db, predictions, statistics, coefficients,
                   kibanaObjects, lastCall, pc, inflight, log>>

\* the relational store goes down or comes back
DbToggle ==
    /\ dbUp' = ~dbUp
    /\ UNCHANGED <<now, redisUp, kibanaUp, db, predictions, statistics, coefficients,
                   kibanaObjects, lastCall, pc, inflight, log>>

(***************************************************************************)
(* The cache under its callers: one action per get_* call.                 *)
(***************************************************************************)
QueryDates == {T0 + 6 * Minute + 10, T0 + 90 * Minute, T0 + 2 * Hour, T0 + 3 * Hour + 2 * Minute}
QueryChats == {1, 2}
QueryDeltas == {60}

CallRecord(op, args, r, link) ==
    [op |-> op, args |-> args, up |-> dbUp, at |-> now, hit |-> r.hit,
     queries |-> r.queries, raised |-> r.raised, ret |-> r.ret,
     written |-> IF r.hit THEN link.written ELSE Null]

\* get_prediction(date, chat_id, delta) is called
PredictionCalled(args, r) ==
    /\ predictions' = r.cache
    /\ lastCall' = CallRecord("get_prediction", args, r,
                              TTLLink(predictions, <<_get_nearest_date(args[1]), args[2], args[3]>>))
    /\ UNCHANGED <<now, dbUp, redisUp, kibanaUp, db, statistics, coefficients,
                   kibanaObjects, pc, inflight, log>>

GetPrediction ==
    \E date \in QueryDates, chat_id \in QueryChats, delta \in QueryDeltas :
        PredictionCalled(<<date, chat_id, delta>>,
            get_prediction(predictions, db.predictions, dbUp, now, date, chat_id, delta))

\* get_statistics(date, chat_id, delta, 'views') is called
StatisticsCalled(args, r) ==
    /\ statistics' = r.cache
    /\ lastCall' = CallRecord("get_statistics", args, r,
                              LatestStatisticsLink(statistics, now, args[1], args[2], args[3],
                                                   "views"))
    /\ UNCHANGED <<now, dbUp, redisUp, kibanaUp, db, predictions, coefficients,
                   kibanaObjects, pc, inflight, log>>

GetStatistics ==
    \E date \in QueryDates, chat_id \in QueryChats, delta \in QueryDeltas :
        StatisticsCalled(<<date, chat_id, delta>>,
            get_statistics(statistics, db.statistics, dbUp, now, date, chat_id, delta, "views"))

\* get_coefficients(chat_id) is called
CoefficientsCalled(args, r) ==
    /\ coefficients' = r.cache
    /\ lastCall' = CallRecord("get_coefficients", args, r, TTLLink(coefficients, args[1]))
    /\ UNCHANGED <<now, dbUp, redisUp, kibanaUp, db, predictions, statistics,
                   kibanaObjects, pc, inflight, log>>

GetCoefficients ==
    \E chat_id \in QueryChats :
        CoefficientsCalled(<<chat_id>>,
            get_coefficients(coefficients, db.coefficients, dbUp, now, chat_id))

Init ==
    /\ InitServices
    /\ lastCall = NoCall
    /\ pc = "idle" /\ inflight = None /\ log = <<>>

Next == GetPrediction \/ GetStatistics \/ GetCoefficients \/ Tick \/ DbToggle

Spec == Init /\ [][Next]_vars

(***************************************************************************)
(* Claims about the cache, under Spec.                                     *)
(***************************************************************************)
CacheOps == {"get_prediction", "get_statistics", "get_coefficients"}

\* C6: every get_prediction, get_statistics and get_coefficients call sends
\* at most one query to the store: none when the first lookup hits, exactly
\* one when it misses, also when the lookup after the refill misses again
C6_AtMostOneRefill ==
    lastCall.op \in CacheOps =>
        /\ lastCall.queries \in {0, 1}
        /\ lastCall.hit <=> lastCall.queries = 0
        /\ (~lastCall.hit /\ ~lastCall.raised /\ lastCall.ret = None) => lastCall.queries = 1

\* a call that missed, refilled and missed again
C6_Witness ==
    /\ lastCall.op = "get_prediction"
    /\ ~lastCall.hit /\ ~lastCall.raised /\ lastCall.ret = None /\ lastCall.queries = 1

RetentionOf(op) ==
    IF op = "get_prediction" THEN cache_big_retention_window
    ELSE cache_small_retention_window

LinksKeepInsertionExpiry(c, ttl) == \A i \in 1..Len(c) : c[i].expires = c[i].written + ttl

\* C7: a call answered from the cache without a refill returns an entry that
\* a refill wrote less than one retention window earlier, and the expiry of
\* every entry stays the time it was written plus the retention window,
\* however often it was read
C7_HitsAreFresh ==
    /\ (lastCall.op \in CacheOps /\ lastCall.hit) =>
           /\ lastCall.written <= lastCall.at
           /\ lastCall.at - lastCall.written < RetentionOf(lastCall.op)
    /\ LinksKeepInsertionExpiry(predictions, cache_big_retention_window)
    /\ LinksKeepInsertionExpiry(statistics, cache_small_retention_window)
    /\ LinksKeepInsertionExpiry(coefficients, cache_small_retention_window)

\* an entry is read some time after it was written and still in the cache
\* after the read
C7_Witness ==
    /\ lastCall.op = "get_prediction" /\ lastCall.hit
    /\ lastCall.at > lastCall.written
    /\ TTLHas(predictions, <<_get_nearest_date(lastCall.args[1]), lastCall.args[2],
                             lastCall.args[3]>>, lastCall.at)

\* C8: a get_* call whose refill finds the store down raises; it does not
\* return absent
C8_RefillFailurePropagates ==
    (lastCall.op \in CacheOps /\ ~lastCall.hit /\ ~lastCall.up) => lastCall.raised

\* get_prediction missed with the store down
C8_Witness ==
    lastCall.op = "get_prediction" /\ ~lastCall.hit /\ ~lastCall.up /\ lastCall.raised

\* the start of the step bucket a date lies in
BucketOf(date) ==
    date - (date % Hour)
    + (((date % Hour) \div Minute) \div prediction_step) * prediction_step * Minute

\* the rows of the prediction table for a source and delta, dated from..to
PredictionRowsIn(from, to, chat_id, delta) ==
    { i \in 1..Len(db.predictions) :
        /\ from <= db.predictions[i].date /\ db.predictions[i].date <= to
        /\ db.predictions[i].chat_id = chat_id
        /\ db.predictions[i].delta = delta }

WindowsAround ==
    { i \in 1..Len(statistics) :
        /\ lastCall.at < statistics[i].expires
        /\ statistics[i].key[1] < lastCall.args[1]
        /\ lastCall.args[1] < statistics[i].key[2]
        /\ statistics[i].key[3] = lastCall.args[2]
        /\ statistics[i].key[4] = lastCall.args[3]
        /\ statistics[i].key[5] = "views" }

\* the rows of the statistics table whose window has the call's date
\* strictly inside, for its source, its delta and the metric views
StoreWindowsAround ==
    { i \in 1..Len(db.statistics) :
        /\ db.statistics[i].date_from < lastCall.args[1]
        /\ lastCall.args[1] < db.statistics[i].date_to
        /\ db.statistics[i].chat_id = lastCall.args[2]
        /\ db.statistics[i].delta = lastCall.args[3]
        /\ db.statistics[i].metric = "views" }

\* C19: get_statistics returns the entry of a window with window_start < date
\* < window_end and the call's source, delta and metric, the one with the
\* greatest window_end of those in the cache; it returns absent when the cache
\* holds none, which after the one refill means that the store has no window
\* with the date strictly inside
C19_StatisticsLatestWindow ==
    (lastCall.op = "get_statistics" /\ ~lastCall.raised) =>
        /\ lastCall.ret # None =>
               \E i \in WindowsAround :
                   /\ lastCall.ret = statistics[i].val
                   /\ \A j \in WindowsAround : statistics[j].key[2] <= statistics[i].key[2]
        /\ lastCall.ret = None => (WindowsAround = {} /\ lastCall.queries = 1)
        /\ (lastCall.ret = None /\ lastCall.up) => StoreWindowsAround = {}
        /\ lastCall.ret # None =>
               \E i \in StoreWindowsAround :
                   lastCall.ret = [mean |-> db.statistics[i].mean, std |-> db.statistics[i].std]

\* a date inside two windows of the source: the entry of the later-ending
\* one was returned
C19_Witness ==
    /\ lastCall.op = "get_statistics" /\ ~lastCall.raised
    /\ lastCall.args = <<T0 + 6 * Minute + 10, 1, 60>>
    /\ Cardinality(WindowsAround) = 2
    /\ lastCall.ret = [mean |-> StatB.mean, std |-> StatB.std]

\* a date equal to the end of the only window around it: the refill fetched
\* the window and the call returned absent
StatisticsBoundaryReached ==
    /\ lastCall.op = "get_statistics" /\ lastCall.up /\ ~lastCall.hit
    /\ lastCall.args = <<T0 + 2 * Hour, 1, 60>>
    /\ lastCall.ret = None
    /\ \E i \in 1..Len(statistics) : statistics[i].key[2] = T0 + 2 * Hour

PredictionRowsOfMinute(time, chat_id, delta) ==
    { i \in 1..Len(db.predictions) :
        /\ db.predictions[i].date - (db.predictions[i].date % Minute) = time
        /\ db.predictions[i].chat_id = chat_id
        /\ db.predictions[i].delta = delta }

\* the rows of the prediction table whose minute is not a multiple of the step
OffStepRows ==
    { i \in 1..Len(db.predictions) :
        ((db.predictions[i].date \div Minute) % 60) % prediction_step # 0 }

\* C28: get_prediction(date, source, delta) returns the entry of a store row
\* only if the date of the row, cut to the minute, is the date rounded down
\* to its bucket; a row whose minute is not a multiple of the step is cached
\* under a key that no call looks up
C28_OnlyBucketRowsReturned ==
    (lastCall.op = "get_prediction" /\ lastCall.ret # None) =>
        /\ \E i \in PredictionRowsOfMinute(BucketOf(lastCall.args[1]), lastCall.args[2],
                                           lastCall.args[3]) :
               lastCall.ret = [views |-> db.predictions[i].views,
                               views_upper |-> db.predictions[i].views_upper]
        /\ \A i \in OffStepRows :
               lastCall.ret # [views |-> db.predictions[i].views,
                               views_upper |-> db.predictions[i].views_upper]

\* the row dated T0 + 7 min 7 s is cached under T0 + 7 min, and a call for a
\* date of its bucket, T0 + 6 min 10 s, returned the row dated T0 + 5 min
C28_Witness ==
    /\ lastCall.op = "get_prediction" /\ lastCall.args = <<T0 + 6 * Minute + 10, 1, 60>>
    /\ lastCall.ret = [views |-> 100, views_upper |-> 150]
    /\ \E i \in 1..Len(predictions) :
           /\ predictions[i].key = <<T0 + 7 * Minute, 1, 60>>
           /\ predictions[i].val = [views |-> 100, views_upper |-> 120]
           /\ now < predictions[i].expires

\* the store holds no row for the key of the last call: no prediction at the
\* bucket of the date, no statistics window around the date, no coefficient
\* row of the source
KeyAbsentFromStore ==
    IF lastCall.op = "get_prediction"
    THEN PredictionRowsOfMinute(BucketOf(lastCall.args[1]), lastCall.args[2],
                                lastCall.args[3]) = {}
    ELSE IF lastCall.op = "get_statistics" THEN StoreWindowsAround = {}
    ELSE \A i \in 1..Len(db.coefficients) : db.coefficients[i].id # lastCall.args[1]

\* C29: absence is not cached: a get_prediction, get_statistics or
\* get_coefficients call for a key without a row in the store, whenever it
\* is made and whatever was called before, misses, sends exactly one query
\* and returns absent
C29_AbsenceIsNotCached ==
    (lastCall.op \in CacheOps /\ lastCall.up /\ KeyAbsentFromStore) =>
        /\ ~lastCall.hit /\ ~lastCall.raised
        /\ lastCall.queries = 1
        /\ lastCall.ret = None

\* an hour after construction a call for a source without coefficients sent
\* its one query, which wrote the rows of the other sources, and returned
\* absent
C29_Witness ==
    /\ lastCall.op = "get_coefficients" /\ lastCall.up /\ KeyAbsentFromStore
    /\ lastCall.at >= T0 + Hour
    /\ \E i \in 1..Len(coefficients) : coefficients[i].written = lastCall.at
    /\ lastCall.queries = 1 /\ lastCall.ret = None

(***************************************************************************)
(* The detectors and the aggregator under their callers.                   *)
(***************************************************************************)
\* chat_id, delta, loading_date, views, forwards, reaction_count
MetricParts ==
    { <<1, 60, T0 + 6 * Minute + 10, 200, 40, 10>>,     \* forwards ratio and views too high
      <<1, 60, T0 + 3 * Hour + 2 * Minute, 90, 40, 10>>,  \* below the minimal views
                                                        \* threshold, all else too high
      <<1, 60, T0 + 6 * Minute + 10, 120, 12, 24>>,     \* both ratios equal to the coefficients
      <<1, 60, T0 + 6 * Minute + 10, 200, 10, 50>>,     \* the reactions ratio too high
      <<Null, 60, T0 + 6 * Minute + 10, 200, 40, 10>>,  \* no chat_id
      <<1, 60, Null, 200, 40, 10>>,                     \* no loading_date
      <<1, 60, T0 + 6 * Minute + 10, 200, 0, 10>>,      \* forwards 0
      <<2, 60, T0 + 6 * Minute + 10, 200, 40, 10>>,     \* a source with a coefficient 0
      <<1, 60, T0 + 6 * Minute + 10, 120, 6, 6>>,       \* nothing too high
      <<1, 60, T0 + 90 * Minute, 200, 40, 50>> }        \* both ratios too high, no prediction

\* more of them, for the metric detector under SpecMetric
MoreMetricParts ==
    { <<1, 60, T0 + 3 * Hour + 2 * Minute, 200, 10, 10>>,  \* views too high, no statistics
      <<4, 60, T0 + 6 * Minute + 10, 200, 10, 10>>,     \* views too high, 0 views predicted
      <<5, 60, T0 + 6 * Minute + 10, 200, 10, 10>>,     \* views too high, statistics of std 0
      <<3, 60, T0 + 6 * Minute + 10, 200, 40, 10>>,     \* a source with a null threshold
      <<1, 60, T0 + 6 * Minute + 10, 0, 40, 10>>,       \* views 0
      <<1, 60, T0 + 6 * Minute + 10, 200, 40, 0>>,      \* reaction_count 0
      <<1, 0, T0 + 6 * Minute + 10, 200, 40, 10>> }     \* delta 0

\* country, forward_from_chat_id
RepostParts ==
    { <<"US", 12>>, <<"US", 11>>, <<"xx", 13>>, <<"US", 13>>, <<"US", 14>>, <<"US", 15>>,
      <<"US", 16>>, <<"xx", 11>>, <<"None", 11>>, <<"", 12>>, <<"US", Null>>, <<"US", 0>> }

Article(m, r) ==
    [source |-> "channel", date |-> T0, chat_id |-> m[1], delta |-> m[2],
     loading_date |-> m[3], views |-> m[4], forwards |-> m[5], reaction_count |-> m[6],
     country |-> r[1], forward_from_chat_id |-> r[2]]

\* what the accumulator may hold when a detector is run
Accumulators ==
    { <<>>, <<Anomaly("views", Rat(200, 1), Rat(100, 1), 269, WeightPredictedMetrics)>> }

\* the key-value store or Kibana goes down or comes back
RedisToggle ==
    /\ redisUp' = ~redisUp
    /\ UNCHANGED <<now, dbUp, kibanaUp, db, predictions, statistics, coefficients,
                   kibanaObjects, lastCall, pc, inflight, log>>

KibanaToggle ==
    /\ kibanaUp' = ~kibanaUp
    /\ UNCHANGED <<now, dbUp, redisUp, db, predictions, statistics, coefficients,
                   kibanaObjects, lastCall, pc, inflight, log>>

\* a detector's run(article, anomalies) is called and hands back r
DetectorCalled(op, article, before, r) ==
    /\ predictions' = r.st.predictions
    /\ statistics' = r.st.statistics
    /\ coefficients' = r.st.coefficients
    /\ lastCall' = [op |-> op, article |-> article, before |-> before,
                    anomalies |-> r.anomalies, raised |-> r.raised,
                    lookups |-> r.lookups, queries |-> r.queries, up |-> dbUp,
                    forward_country |-> hget(Env, article.forward_from_chat_id).val]
    /\ UNCHANGED <<now, dbUp, redisUp, kibanaUp, db, kibanaObjects, pc, inflight, log>>

\* TelegramMetricAnomalyDetector.run(article, anomalies) is called
MetricDetect ==
    \E m \in MetricParts, before \in Accumulators :
        DetectorCalled("metric", Article(m, <<"US", 12>>), before,
                       MetricRun(Article(m, <<"US", 12>>), before, Caches, Env))

\* TelegramRepostAnomalyDetector.run(article, anomalies) is called
RepostDetect ==
    \E p \in RepostParts, before \in Accumulators :
        DetectorCalled("repost", Article(<<1, 60, T0 + 6 * Minute + 10, 120, 6, 6>>, p),
                       before,
                       RepostRun(Article(<<1, 60, T0 + 6 * Minute + 10, 120, 6, 6>>, p),
                                 before, Caches, Env))

\* TelegramMetricAnomalyDetector.run on its own, on any of the articles
MetricDetectAll ==
    \E m \in MetricParts \cup MoreMetricParts, before \in Accumulators :
        DetectorCalled("metric", Article(m, <<"US", 12>>), before,
                       MetricRun(Article(m, <<"US", 12>>), before, Caches, Env))

NextMetric == MetricDetectAll \/ Tick \/ DbToggle

SpecMetric == Init /\ [][NextMetric]_vars

NextDetectors == MetricDetect \/ RepostDetect \/ Tick \/ DbToggle \/ RedisToggle

SpecDetectors == Init /\ [][NextDetectors]_vars

(***************************************************************************)
(* Claims about the detectors, under SpecDetectors.                        *)
(***************************************************************************)
KnownCountry(c) == c \notin {"xx", "None", ""}

ForwardAnomaly == Anomaly("forward", Rat(1, 1), Rat(0, 1), ScoreOne, DefaultWeight)

\* C4: for an article with country and forward_from_chat_id, when the
\* article's country and the country looked up for the forwarded-from chat
\* are both known, the repost detector appends exactly one anomaly (score
\* 1.0, metric_value 1, expected_value 0) if they differ and nothing if they
\* are equal
C4_RepostAnomalyIffCountriesDiffer ==
    ( /\ lastCall.op = "repost" /\ ~lastCall.raised
      /\ CheckArticleFields(lastCall.article, RepostMustHaveFields)
      /\ KnownCountry(lastCall.article.country)
      /\ KnownCountry(lastCall.forward_country) ) =>
        IF lastCall.article.country # lastCall.forward_country
        THEN lastCall.anomalies = Append(lastCall.before, ForwardAnomaly)
        ELSE lastCall.anomalies = lastCall.before

\* C5: the repost detector appends nothing when the article's country is
\* "xx", or the looked-up forward country is "xx" (as str or as bytes) or null
C5_SentinelCountryNoAnomaly ==
    ( /\ lastCall.op = "repost"
      /\ \/ lastCall.article.country = "xx"
         \/ lastCall.forward_country \in {"xx", "b'xx'", "None"} ) =>
        lastCall.anomalies = lastCall.before

\* the detector looked up "xx" for an article of country "xx"
C5_Witness ==
    /\ lastCall.op = "repost" /\ ~lastCall.raised /\ lastCall.lookups = 1
    /\ lastCall.article.country = "xx" /\ lastCall.forward_country = "xx"

RequiredFields(op) ==
    IF op = "metric"
    THEN {"chat_id", "delta", "loading_date", "views", "forwards", "reaction_count"}
    ELSE {"country", "forward_from_chat_id"}

\* C10: a detector run on an article with a required field missing or falsy
\* appends nothing, does not raise and makes no cache or key-value lookup
C10_MissingFieldIsNoOp ==
    ( /\ lastCall.op \in {"metric", "repost"}
      /\ \E f \in RequiredFields(lastCall.op) : ~Truthy(lastCall.article, f) ) =>
        /\ lastCall.anomalies = lastCall.before
        /\ ~lastCall.raised
        /\ lastCall.lookups = 0
        /\ lastCall.queries = 0

\* the metric detector was run, the store down, on an article with 0 forwards
\* and every other field there
C10_Witness ==
    /\ lastCall.op = "metric" /\ ~dbUp
    /\ lastCall.article.forwards = 0
    /\ \A f \in RequiredFields("metric") \ {"forwards"} : Truthy(lastCall.article, f)
    /\ ~lastCall.raised

\* the coefficients the store holds for a source (None when it holds none)
RECURSIVE CoefficientsOf(_, _)
CoefficientsOf(rows, chat_id) ==
    IF rows = <<>> THEN None
    ELSE IF rows[1].id = chat_id THEN rows[1]
    ELSE CoefficientsOf(Tail(rows), chat_id)

\* the names of the anomalies the last detector run appended
AppendedNames ==
    { lastCall.anomalies[i].metric_name :
          i \in (Len(lastCall.before) + 1)..Len(lastCall.anomalies) }

\* the last call ran the metric detector on an article with every required
\* field, of a source the store holds coefficients with a threshold for
MetricCallOnKnownSource ==
    /\ lastCall.op = "metric"
    /\ \A f \in RequiredFields("metric") : Truthy(lastCall.article, f)
    /\ CoefficientsOf(db.coefficients, lastCall.article.chat_id) # None
    /\ CoefficientsOf(db.coefficients, lastCall.article.chat_id).minimal_views_threshold # Null

\* C11: for an article that passes the field check and the minimal-views gate,
\* of a source with positive coefficients, the static check appends a
\* forwards_by_views anomaly iff forwards/views > the forwards_by_views
\* coefficient and, independently, a reaction_count_by_views anomaly iff
\* reaction_count/views > the reaction_count_by_views coefficient
C11_StaticAnomalyIffRatioAbove ==
    ( /\ MetricCallOnKnownSource
      /\ lastCall.lookups >= 2
      /\ CoefficientsOf(db.coefficients, lastCall.article.chat_id).forwards_by_views.n > 0
      /\ CoefficientsOf(db.coefficients, lastCall.article.chat_id).reaction_count_by_views.n > 0 ) =>
        LET c == CoefficientsOf(db.coefficients, lastCall.article.chat_id)
            a == lastCall.article
        IN  /\ "forwards_by_views" \in AppendedNames
                <=> a.forwards * c.forwards_by_views.d > c.forwards_by_views.n * a.views
            /\ "reaction_count_by_views" \in AppendedNames
                <=> a.reaction_count * c.reaction_count_by_views.d
                    > c.reaction_count_by_views.n * a.views

\* the reactions ratio was above its coefficient and the forwards ratio below
\* its own: only the reaction_count_by_views anomaly was appended
C11_Witness ==
    /\ MetricCallOnKnownSource
    /\ lastCall.lookups >= 2
    /\ lastCall.article.forwards = 10 /\ lastCall.article.reaction_count = 50
    /\ AppendedNames = {"reaction_count_by_views"}

\* C12: when the views are strictly below the source's minimal_views_threshold
\* the metric detector appends nothing, from neither check
C12_BelowThresholdIsNoOp ==
    ( /\ MetricCallOnKnownSource
      /\ lastCall.article.views
         < CoefficientsOf(db.coefficients, lastCall.article.chat_id).minimal_views_threshold ) =>
        lastCall.anomalies = lastCall.before

\* 90 views against a threshold of 100, with a forwards ratio of 4/9 against
\* 1/10 and a predicted upper bound of 80: the detector returned at the gate
C12_Witness ==
    /\ MetricCallOnKnownSource
    /\ lastCall.article.views = 90 /\ lastCall.article.forwards = 40
    /\ ~lastCall.raised
    /\ lastCall.lookups = 1
    /\ lastCall.anomalies = lastCall.before

\* the last call ran the metric detector, with the store reachable, on an
\* article with every required field and positive views, of a source whose
\* coefficient row has one of the given thresholds
MetricCallWithThreshold(thresholds) ==
    /\ lastCall.op = "metric"
    /\ lastCall.up
    /\ \A f \in RequiredFields("metric") : Truthy(lastCall.article, f)
    /\ lastCall.article.views > 0
    /\ CoefficientsOf(db.coefficients, lastCall.article.chat_id) # None
    /\ CoefficientsOf(db.coefficients, lastCall.article.chat_id).minimal_views_threshold
           \in thresholds

\* the gate of the last call did not raise and let the article through to
\* the ratio checks, which looked the coefficients up once more
GatePassed == lastCall.lookups >= 2

\* C22: when the coefficient row of the source has no minimal-views threshold
\* (no such column, or null in it), the gate does not raise and an article
\* with positive views goes on to the ratio checks
C22_NoThresholdIsZero == MetricCallWithThreshold({Unset, Null}) => GatePassed

\* the half of it that holds: a row without the column is a threshold of 0
UnsetThresholdIsZero == MetricCallWithThreshold({Unset}) => GatePassed

UnsetThresholdPassed == MetricCallWithThreshold({Unset}) /\ GatePassed

\* under a null threshold the gate raises, after its one lookup
NullThresholdRaises ==
    MetricCallWithThreshold({Null}) => lastCall.raised /\ lastCall.lookups = 1

NullThresholdRaised == MetricCallWithThreshold({Null}) /\ lastCall.raised

\* the static-ratio anomalies the last run of the metric detector appended
AppendedStatic ==
    IF lastCall.op # "metric" THEN {}
    ELSE { i \in (Len(lastCall.before) + 1)..Len(lastCall.anomalies) :
               lastCall.anomalies[i].metric_name
                   \in {"forwards_by_views", "reaction_count_by_views"} }

\* C23: the score of a static-ratio anomaly of observed ratio r and
\* coefficient e is 1 / (1 + exp((e - r) * 10)): the deviation is the ratio
\* itself, not the ratio divided by the coefficient
C23_StaticScoreOfRatio ==
    \A i \in AppendedStatic :
        lastCall.anomalies[i].score
            = Logistic(RatMul(RatSub(lastCall.anomalies[i].expected_value,
                                     lastCall.anomalies[i].metric_value), Rat(10, 1)))

\* what holds instead: the exponent is (e - r / e) * 10
StaticScoreOfRatioByCoefficient ==
    \A i \in AppendedStatic :
        lastCall.anomalies[i].score
            = Logistic(RatMul(RatSub(lastCall.anomalies[i].expected_value,
                                     RatDiv(lastCall.anomalies[i].metric_value,
                                            lastCall.anomalies[i].expected_value)),
                              Rat(10, 1)))

\* a forwards ratio of 1/5 against a coefficient of 1/10 scored 999
\* thousandths, where an exponent of -1 gives 731
StaticScoredByCoefficient ==
    \E i \in AppendedStatic :
        /\ lastCall.anomalies[i].metric_value = Rat(40, 200)
        /\ lastCall.anomalies[i].expected_value = Rat(1, 10)
        /\ lastCall.anomalies[i].score = 999

\* C30: an article whose views, forwards, reaction_count or delta is 0 gets
\* no anomaly from the metric detector, which returns at the field check:
\* it does not raise (no ratio is taken over 0 views) and appends no
\* 'views' anomaly, whatever the views are
C30_ZeroFieldIsNoOp ==
    ( /\ lastCall.op = "metric"
      /\ \E f \in {"views", "forwards", "reaction_count", "delta"} :
             lastCall.article[f] = 0 ) =>
        /\ ~lastCall.raised
        /\ AppendedNames = {}
        /\ lastCall.anomalies = lastCall.before
        /\ lastCall.lookups = 0

\* 200 views against a predicted upper bound of 150, the store reachable and
\* the source known, but a reaction_count of 0: nothing was appended
C30_Witness ==
    /\ lastCall.op = "metric" /\ lastCall.up
    /\ lastCall.article.chat_id = 1 /\ lastCall.article.delta = 60
    /\ lastCall.article.loading_date = T0 + 6 * Minute + 10
    /\ lastCall.article.views = 200 /\ lastCall.article.reaction_count = 0
    /\ \E i \in PredictionRowsIn(T0 + 5 * Minute, T0 + 5 * Minute, 1, 60) :
           db.predictions[i].views_upper < 200
    /\ ~lastCall.raised /\ lastCall.anomalies = lastCall.before

\* the rows of the prediction table dated at the bucket of the article of
\* the last call, for its source and delta
PredictionsOfArticle ==
    PredictionRowsIn(BucketOf(lastCall.article.loading_date),
                     BucketOf(lastCall.article.loading_date),
                     lastCall.article.chat_id, lastCall.article.delta)

\* the last call ran the metric detector, the store reachable, as far as the
\* two lookups of _check_predicted_metrics
PredictedCheckRan ==
    /\ MetricCallOnKnownSource
    /\ lastCall.up
    /\ lastCall.lookups = 4

\* C21: for an article that passed the field check and the gate, the
\* predicted-views check appends a views anomaly, its expected_value the
\* prediction's views, iff a prediction exists for the bucket of loading_date,
\* the source and the delta and the views are strictly above its views_upper;
\* the check does not raise, with or without statistics
C21_ViewsAnomalyIffAboveUpper ==
    PredictedCheckRan =>
        /\ ~lastCall.raised
        /\ "views" \in AppendedNames
           <=> \E i \in PredictionsOfArticle :
                   lastCall.article.views > db.predictions[i].views_upper
        /\ "views" \in AppendedNames =>
               \E i \in PredictionsOfArticle :
                   lastCall.anomalies[Len(lastCall.anomalies)].expected_value
                   = Rat(db.predictions[i].views, 1)

\* what the code keeps of C21: the same, when the prediction's views are not
\* 0 and the std of the statistics found is not 0
ViewsAnomalyIffAboveUpperUnlessZero ==
    ( /\ PredictedCheckRan
      /\ \A i \in PredictionsOfArticle : db.predictions[i].views # 0
      /\ lastCall.article.chat_id # 5 ) =>
        /\ ~lastCall.raised
        /\ "views" \in AppendedNames
           <=> \E i \in PredictionsOfArticle :
                   lastCall.article.views > db.predictions[i].views_upper
        /\ "views" \in AppendedNames =>
               \E i \in PredictionsOfArticle :
                   lastCall.anomalies[Len(lastCall.anomalies)].expected_value
                   = Rat(db.predictions[i].views, 1)

\* a views anomaly was appended for an article with no statistics around its
\* loading_date
ViewsAnomalyWithoutStatistics ==
    /\ PredictedCheckRan
    /\ lastCall.article.loading_date = T0 + 3 * Hour + 2 * Minute
    /\ "views" \in AppendedNames

\* C31: for an article that passes the field check, of a source with
\* coefficients and a threshold, the store reachable, the run of the metric
\* detector completes: no score divides by a coefficient 0, by the 0 views of
\* a prediction or by a std 0
C31_NoDivisionByZero ==
    (MetricCallOnKnownSource /\ lastCall.up) => ~lastCall.raised

\* what holds instead: such a run raises only over a divisor 0, a
\* coefficient of the source, the views of the prediction of the article or
\* the std of a statistics row of the source
RaisesOnlyOverZeroDivisor ==
    (MetricCallOnKnownSource /\ lastCall.up /\ lastCall.raised) =>
        \/ CoefficientsOf(db.coefficients, lastCall.article.chat_id).forwards_by_views.n = 0
        \/ CoefficientsOf(db.coefficients, lastCall.article.chat_id).reaction_count_by_views.n
               = 0
        \/ \E i \in PredictionsOfArticle : db.predictions[i].views = 0
        \/ \E i \in 1..Len(db.statistics) :
               /\ db.statistics[i].chat_id = lastCall.article.chat_id
               /\ db.statistics[i].std.n = 0

\* a forwards ratio of 1/5 over a coefficient 0: the static check raised
\* after the second lookup of the coefficients
CoefficientZeroRaised ==
    /\ MetricCallOnKnownSource /\ lastCall.up /\ lastCall.raised
    /\ lastCall.article.chat_id = 2 /\ lastCall.lookups = 2

\* 200 views over a prediction of 0 views with the upper bound 10: the
\* predicted check raised
PredictionZeroRaised ==
    /\ MetricCallOnKnownSource /\ lastCall.up /\ lastCall.raised
    /\ lastCall.article.chat_id = 4 /\ lastCall.lookups = 4

\* 200 views over a prediction of 100 with the upper bound 150 and
\* statistics of std 0: the predicted check raised
StdZeroRaised ==
    /\ MetricCallOnKnownSource /\ lastCall.up /\ lastCall.raised
    /\ lastCall.article.chat_id = 5 /\ lastCall.lookups = 4

\* the event envelopes
Message(article, destination) ==
    [metadata |-> [id |-> "article-1", method |-> "TelegramListener",
                   destination |-> destination],
     payload |-> article]

\* the articles run is called with: every way the metric detector ends,
\* against every way the repost detector ends
RunMetricParts ==
    { <<1, 60, T0 + 6 * Minute + 10, 200, 40, 10>>,
      <<1, 60, T0 + 6 * Minute + 10, 120, 6, 6>>,
      <<2, 60, T0 + 6 * Minute + 10, 200, 40, 10>>,
      <<1, 60, T0 + 90 * Minute, 200, 40, 50>> }

RunRepostParts == { <<"US", 11>>, <<"US", 12>>, <<"xx", 13>>, <<"US", Null>> }

Messages ==
    { Message(Article(m, r), <<"dm_tg">>) : m \in RunMetricParts, r \in RunRepostParts }
    \cup { Message(Article(<<1, 60, T0 + 6 * Minute + 10, 200, 40, 10>>, <<"US", 11>>),
                   <<"unknown_index">>) }

\* AnomalyDetector.run(message) is called and hands back r
RunCalled(m, r) ==
    /\ predictions' = r.st.predictions
    /\ statistics' = r.st.statistics
    /\ coefficients' = r.st.coefficients
    /\ kibanaObjects' = r.kibanaObjects
    /\ lastCall' = [op |-> "run", message |-> m, result |-> r.result, alert |-> r.alert,
                    anomalies |-> r.anomalies, ran |-> r.ran, raisedIn |-> r.raisedIn,
                    linkCalls |-> r.linkCalls, after |-> MessageAfterRun(m, r),
                    articles |-> [i \in 1..Len(r.ran) |->
                                     ArticleAfterDetectors(SubSeq(r.ran, 1, i), m.payload)]]
    /\ UNCHANGED <<now, dbUp, redisUp, kibanaUp, db, pc, inflight, log>>

Run ==
    \E m \in Messages : RunCalled(m, run(Detectors, m, Caches, kibanaObjects, Env))

NextRun == Run \/ Tick \/ DbToggle \/ RedisToggle \/ KibanaToggle

SpecRun == Init /\ [][NextRun]_vars

(***************************************************************************)
(* Claims about AnomalyDetector.run, under SpecRun.                        *)
(***************************************************************************)
\* C1: run returns an Alert if and only if the detectors appended at least
\* one anomaly; when they appended none it returns None, without raising and
\* without calling the link generator
C1_AlertIffAnomalies ==
    lastCall.op = "run" =>
        /\ lastCall.result = "Alert" <=> Len(lastCall.anomalies) >= 1
        /\ Len(lastCall.anomalies) = 0 =>
               (lastCall.result = "None" /\ lastCall.linkCalls = 0)

\* C3: when a detector raises, run does not raise and every detector of the
\* list is still run
C3_DetectorFailureIsContained ==
    (lastCall.op = "run" /\ lastCall.raisedIn \in {"metric", "repost"}) =>
        /\ lastCall.result # "raised"
        /\ lastCall.ran = Detectors

RECURSIVE DataviewsOf(_, _)
DataviewsOf(objects, index) ==
    IF objects = <<>> THEN <<>>
    ELSE IF objects[1].index = index THEN objects[1].dataviews
    ELSE DataviewsOf(Tail(objects), index)

\* the last call was run, no detector raised and at least one anomaly was
\* appended: run went on to build the alert
RunBuiltAlert ==
    /\ lastCall.op = "run"
    /\ lastCall.raisedIn \notin {"metric", "repost"}
    /\ Len(lastCall.anomalies) >= 1

\* C13: when the link service fails (Kibana unreachable), run still returns
\* the Alert and does not raise; the Alert's url is null unless the data views
\* of the destination were still cached
C13_LinkFailureStillAlert ==
    (RunBuiltAlert /\ ~kibanaUp) =>
        /\ lastCall.result = "Alert"
        /\ DataviewsOf(KibanaRemote, lastCall.message.metadata.destination[1]) = <<>>
           => lastCall.alert.url = None

\* C14: when the destination index has no data view (it is unknown to the
\* cache after its one refresh) the Alert is built with url null and nothing
\* is raised; when links are resolved, url is the first of them
C14_NoLinkGivesNullUrl ==
    (RunBuiltAlert /\ kibanaUp) =>
        /\ lastCall.result = "Alert"
        /\ IF DataviewsOf(KibanaRemote, lastCall.message.metadata.destination[1]) = <<>>
           THEN lastCall.alert.url = None
           ELSE /\ lastCall.alert.url # None
                /\ lastCall.alert.url.dataview_id
                   = DataviewsOf(KibanaRemote, lastCall.message.metadata.destination[1])[1][1]
                /\ lastCall.alert.url.space_id
                   = DataviewsOf(KibanaRemote, lastCall.message.metadata.destination[1])[1][2]

\* the half of C14 the code keeps: with the data views of the destination
\* resolved, the Alert's url is the link of the first of them
LinkIsFirstDataview ==
    (RunBuiltAlert /\ DataviewsOf(KibanaRemote, lastCall.message.metadata.destination[1]) # <<>>) =>
        /\ lastCall.result = "Alert"
        /\ lastCall.alert.url.dataview_id
           = DataviewsOf(KibanaRemote, lastCall.message.metadata.destination[1])[1][1]

(***************************************************************************)
(* _create_alert on its own, under SpecAlert: any accumulator of up to     *)
(* MaxAnomalies anomalies out of AnomalyPool.                              *)
(***************************************************************************)
AnomalyPool ==
    { ForwardAnomaly,
      Anomaly("forwards_by_views", Rat(800, 200), Rat(1, 10), ScoreOne, WeightStaticMetrics),
      Anomaly("reaction_count_by_views", Rat(50, 200), Rat(1, 5), ScoreOne - 1,
              WeightStaticMetrics),
      Anomaly("views", Rat(200, 1), Rat(100, 1), 119, WeightPredictedMetrics) }

Accumulations == UNION { [1..n -> AnomalyPool] : n \in 1..MaxAnomalies }

AlertMessage ==
    Message(Article(<<1, 60, T0 + 6 * Minute + 10, 200, 40, 10>>, <<"US", 11>>), <<"dm_tg">>)

\* _create_alert(message, anomalies) is called and hands back r
AlertCreated(anomalies, r) ==
    /\ kibanaObjects' = r.kibanaObjects
    /\ lastCall' = [op |-> "_create_alert", input |-> anomalies, raised |-> r.raised,
                    alert |-> r.alert]
    /\ UNCHANGED <<now, dbUp, redisUp, kibanaUp, db, predictions, statistics,
                   coefficients, pc, inflight, log>>

CreateAlert ==
    \E anomalies \in Accumulations :
        AlertCreated(anomalies, _create_alert(AlertMessage, anomalies, kibanaObjects, Env))

NextAlert == CreateAlert \/ KibanaToggle

SpecAlert == Init /\ [][NextAlert]_vars

Count(seq, a) == Cardinality({ i \in 1..Len(seq) : seq[i] = a })

WithScore(seq, score) == SelectSeq(seq, LAMBDA a : a.score = score)

\* the first position of a sequence of anomalies that holds its greatest score
FirstMaximum(seq) ==
    CHOOSE i \in 1..Len(seq) :
        /\ \A j \in 1..Len(seq) : seq[j].score <= seq[i].score
        /\ \A j \in 1..(i - 1) : seq[j].score < seq[i].score

\* C20: the Alert's field_name, anomaly_value and expected_value are those of
\* the earliest-appended anomaly among those with the greatest score, and
\* anomalies of equal score stay in the order they were appended in
C20_HeadlineIsFirstMaximum ==
    (lastCall.op = "_create_alert" /\ ~lastCall.raised) =>
        /\ lastCall.alert.field_name
           = lastCall.input[FirstMaximum(lastCall.input)].metric_name
        /\ lastCall.alert.anomaly_value
           = lastCall.input[FirstMaximum(lastCall.input)].metric_value
        /\ lastCall.alert.expected_value
           = lastCall.input[FirstMaximum(lastCall.input)].expected_value
        /\ \A a \in AnomalyPool :
               WithScore(lastCall.alert._all_anomalies, a.score)
               = WithScore(lastCall.input, a.score)

\* forwards_by_views and forward, both of score 1.0, were appended in this
\* order after a views anomaly of a lower score: forwards_by_views is the
\* headline
C20_Witness ==
    /\ lastCall.op = "_create_alert" /\ ~lastCall.raised
    /\ Len(lastCall.input) = 3
    /\ lastCall.input[1].metric_name = "views"
    /\ lastCall.input[2].metric_name = "forwards_by_views"
    /\ lastCall.input[3].metric_name = "forward"
    /\ lastCall.alert.field_name = "forwards_by_views"
    /\ lastCall.alert._all_anomalies[2].metric_name = "forward"

(***************************************************************************)
(* ContainerDetector.run, the consumer loop, under SpecLoop.  pc is the    *)
(* loop's position, inflight the message it holds, log what it has done.   *)
(***************************************************************************)
LoopMessages ==
    { Message(Article(<<1, 60, T0 + 6 * Minute + 10, 200, 40, 10>>, <<"US", 11>>),
              <<"dm_tg">>),
      Message(Article(<<1, 60, T0 + 6 * Minute + 10, 200, 0, 10>>, <<"US", Null>>),
              <<"dm_tg">>) }

\* (mutant) the message is acknowledged as soon as it is pulled
PositionAfter_AckFirst(position, raised) ==
    CASE position = "get" -> "ack"
      [] position = "ack" -> "process"
      [] position = "process" -> IF raised THEN "crashed" ELSE "get"

\* (mutant) an exception of the processing is swallowed
PositionAfter_Swallow(position, raised) ==
    CASE position = "get" -> "process"
      [] position = "process" -> "ack"
      [] position = "ack" -> "get"

\* the statement the loop body reaches after the one at position: get, then
\* _run_anomaly_detection, then the ack, then get again; an exception leaves
\* the loop
PositionAfter(position, raised) ==
    CASE position = "get" -> "process"
      [] position = "process" -> IF raised THEN "crashed" ELSE "ack"
      [] position = "ack" -> "get"

Pulled == Cardinality({ i \in 1..Len(log) : log[i].ev = "get" })

\* message = queue_sub.get()
Get ==
    /\ pc = "get"
    /\ Pulled < MaxMessages
    /\ \E m \in LoopMessages :
           /\ inflight' = [n |-> Pulled + 1, message |-> m]
           /\ log' = Append(log, [ev |-> "get", n |-> Pulled + 1, result |-> "None"])
    /\ pc' = PositionAfter("get", FALSE)
    /\ UNCHANGED <<now, dbUp, redisUp, kibanaUp, db, predictions, statistics,
                   coefficients, kibanaObjects, lastCall>>

\* what _run_anomaly_detection adds to the log: the run, and the publish of
\* the alert when run built one and the publisher took it
Processing(n, result, published) ==
    IF result = "Alert" /\ published
    THEN <<[ev |-> "run", n |-> n, result |-> result],
           [ev |-> "publish", n |-> n, result |-> result]>>
    ELSE <<[ev |-> "run", n |-> n, result |-> result]>>

\* self._run_anomaly_detection(message), run handing back r
Processed(r, published) ==
    /\ predictions' = r.st.predictions
    /\ statistics' = r.st.statistics
    /\ coefficients' = r.st.coefficients
    /\ kibanaObjects' = r.kibanaObjects
    /\ log' = log \o Processing(inflight.n, r.result, published)
    /\ pc' = PositionAfter("process",
                           r.result = "raised" \/ (r.result = "Alert" /\ ~published))
    /\ lastCall' = IF r.result = "Alert" /\ published
                   THEN [op |-> "_publish", alert |-> r.alert,
                         data |-> json_dumps(AlertToDict(r.alert))]
                   ELSE lastCall
    /\ UNCHANGED <<now, dbUp, redisUp, kibanaUp, db, inflight>>

Process ==
    /\ pc = "process"
    /\ \E published \in BOOLEAN :
           Processed(run(Detectors, inflight.message, Caches, kibanaObjects, Env), published)

\* queue_ack.put((ACK.ACK, message))
Ack ==
    /\ pc = "ack"
    /\ log' = Append(log, [ev |-> "ack", n |-> inflight.n, result |-> "None"])
    /\ pc' = PositionAfter("ack", FALSE)
    /\ UNCHANGED <<now, dbUp, redisUp, kibanaUp, db, predictions, statistics,
                   coefficients, kibanaObjects, inflight, lastCall>>

InitLoop == InitServices /\ lastCall = NoCall /\ pc = "get" /\ inflight = None /\ log = <<>>

NextLoop == Get \/ Process \/ Ack \/ Tick \/ DbToggle \/ KibanaToggle

SpecLoop == InitLoop /\ [][NextLoop]_vars

Events(ev) == { i \in 1..Len(log) : log[i].ev = ev }

\* C9: the loop has one message in flight: a message is acknowledged only
\* after run has returned for it and, when an alert was built, after the
\* alert was published; the next message is pulled only after the previous
\* one was acknowledged; acknowledgements are issued in the order of the
\* pulls; an alert is published only right after the run that built it
C9_LoopIsSequential ==
    /\ \A i \in Events("ack") :
           \E j \in Events("run") :
               /\ j < i /\ log[j].n = log[i].n /\ log[j].result # "raised"
               /\ \E g \in Events("get") : g < j /\ log[g].n = log[i].n
               /\ log[j].result = "Alert" =>
                      \E k \in Events("publish") : j < k /\ k < i /\ log[k].n = log[i].n
    /\ \A i \in Events("get") :
           log[i].n > 1 => \E j \in Events("ack") : j < i /\ log[j].n = log[i].n - 1
    /\ \A i, j \in Events("ack") : i < j => log[i].n < log[j].n
    /\ \A k \in Events("publish") :
           (k > 1 /\ log[k - 1].ev = "run" /\ log[k - 1].n = log[k].n
                  /\ log[k - 1].result = "Alert")

\* two messages were pulled, processed and acknowledged, the first with an
\* alert published, the second with none built
C9_Witness ==
    /\ Len(log) = 7
    /\ log[3].ev = "publish" /\ log[4].ev = "ack" /\ log[4].n = 1
    /\ log[6].ev = "run" /\ log[6].result = "None"
    /\ log[7].ev = "ack" /\ log[7].n = 2

\* the runs of the log whose processing raised: run itself raised, or it
\* built an alert that was not published
RaisedRuns ==
    { j \in Events("run") :
          \/ log[j].result = "raised"
          \/ /\ log[j].result = "Alert"
             /\ ~\E k \in Events("publish") : log[k].n = log[j].n }

\* C27: when the processing of a message raises, the loop is left: the
\* message is never acknowledged and no later message is pulled; so an
\* acknowledged message is one whose processing did not raise
C27_RaiseEndsLoop ==
    /\ \A j \in RaisedRuns :
           /\ pc = "crashed"
           /\ \A i \in Events("ack") : log[i].n # log[j].n
           /\ \A i \in Events("get") : log[i].n <= log[j].n
           /\ j = Len(log)
    /\ \A i \in Events("ack") : \A j \in RaisedRuns : log[j].n # log[i].n

\* the first message was acknowledged, the processing of the second raised
\* and the loop was left with the second unacknowledged
C27_Witness ==
    /\ pc = "crashed"
    /\ Len(log) >= 5
    /\ log[Len(log)].ev = "run" /\ log[Len(log)].n = 2
    /\ Len(log) \in RaisedRuns
    /\ \E i \in Events("ack") : log[i].n = 1
    /\ Pulled = 2

\* C17: what a consumer deserializes from a published Alert holds, under
\* _all_anomalies, a list of the Alert's anomaly records in the Alert's order,
\* each with its five fields as strings
C17_AnomaliesRoundTrip ==
    lastCall.op = "_publish" =>
        /\ json_loads(lastCall.data)._all_anomalies.type = "list"
        /\ Len(json_loads(lastCall.data)._all_anomalies.items)
           = Len(lastCall.alert._all_anomalies)
        /\ \A i \in 1..Len(lastCall.alert._all_anomalies) :
               json_loads(lastCall.data)._all_anomalies.items[i]
               = AnomalyToDict(lastCall.alert._all_anomalies[i])

\* what the code keeps of C17: the published value under _all_anomalies is
\* one string, the str() of the list of the anomaly dicts in the Alert's order
AnomaliesPublishedAsOneString ==
    lastCall.op = "_publish" =>
        /\ json_loads(lastCall.data)._all_anomalies.type = "str"
        /\ json_loads(lastCall.data)._all_anomalies.of.type = "list"
        /\ \A i \in 1..Len(lastCall.alert._all_anomalies) :
               json_loads(lastCall.data)._all_anomalies.of.items[i]
               = AnomalyToDict(lastCall.alert._all_anomalies[i])

(***************************************************************************)
(* _get_nearest_date on its own, under SpecRounding: every minute of       *)
(* MaxRoundHours hours from T0 on, at four offsets of seconds, against     *)
(* every step of 1..MaxStep minutes.                                       *)
(***************************************************************************)
RoundDates ==
    { T0 + m * Minute + sec : m \in 0..(MaxRoundHours * 60 - 1), sec \in {0, 1, 30, 59} }

Steps == 1..MaxStep

\* _get_nearest_date(dt) is called, and called again on what it returned
Round ==
    /\ lastCall = NoCall
    /\ \E dt \in RoundDates, step \in Steps :
           lastCall' = [op |-> "_get_nearest_date", dt |-> dt, step |-> step,
                        ret |-> NearestDate(dt, step),
                        again |-> NearestDate(NearestDate(dt, step), step)]
    /\ UNCHANGED <<now, dbUp, redisUp, kibanaUp, db, predictions, statistics,
                   coefficients, kibanaObjects, pc, inflight, log>>

NextRounding == Round

SpecRounding == Init /\ [][NextRounding]_vars

\* C15: _get_nearest_date is idempotent; its result has seconds zero, a minute
\* that is a multiple of the step, lies in the same hour as the input and is
\* never later than the input
C15_RoundingIdempotent ==
    lastCall.op = "_get_nearest_date" =>
        /\ lastCall.again = lastCall.ret
        /\ lastCall.ret % Minute = 0
        /\ ((lastCall.ret \div Minute) % 60) % lastCall.step = 0
        /\ lastCall.ret \div Hour = lastCall.dt \div Hour
        /\ lastCall.ret <= lastCall.dt

\* 07:30 past the hour, with a step of 5 minutes, was rounded to 05:00 past
C15_Witness ==
    /\ lastCall.op = "_get_nearest_date"
    /\ lastCall.step = 5
    /\ lastCall.dt = T0 + 7 * Minute + 30
    /\ lastCall.ret = T0 + 5 * Minute
    /\ lastCall.again = T0 + 5 * Minute

(***************************************************************************)
(* _generate_description on its own, under SpecDescription: lists of up to *)
(* MaxDescribed anomalies against total scores on and around the           *)
(* thresholds.                                                             *)
(***************************************************************************)
ViewsFivefold == Anomaly("views", Rat(500, 1), Rat(100, 1), 900, WeightPredictedMetrics)

DescribedAnomalies ==
    { ViewsFivefold, ForwardAnomaly,
      Anomaly("forwards_by_views", Rat(40, 200), Rat(1, 10), 119, WeightStaticMetrics) }

DescribedLists == UNION { [1..n -> DescribedAnomalies] : n \in 1..MaxDescribed }

Totals == {-1, 0, 1, 250, 251, 750, 751, 900, 2 * ScoreOne}

\* _generate_description(anomalies, message, total_score) is called
Describe ==
    /\ \E anomalies \in DescribedLists, total_score \in Totals :
           lastCall' = [op |-> "_generate_description", anomalies |-> anomalies,
                        total_score |-> total_score,
                        description |->
                            _generate_description(anomalies, AlertMessage, total_score)]
    /\ UNCHANGED <<now, dbUp, redisUp, kibanaUp, db, predictions, statistics,
                   coefficients, kibanaObjects, pc, inflight, log>>

NextDescription == Describe

SpecDescription == Init /\ [][NextDescription]_vars

\* C16: the severity prefix is 'Critical anomaly' iff total > 0.75, 'Major
\* anomaly' iff 0.25 < total <= 0.75, 'Minor anomaly' iff 0 < total <= 0.25
\* and 'Warning anomaly' iff total <= 0; the single anomaly (views, 500,
\* expected 100) with total 0.9 is described as 'Critical anomaly in views
\* (5.0x higher) found for <source>'
C16_PrefixByThresholds ==
    lastCall.op = "_generate_description" =>
        /\ lastCall.description.prefix = "Critical anomaly" <=> lastCall.total_score > 750
        /\ lastCall.description.prefix = "Major anomaly"
           <=> (250 < lastCall.total_score /\ lastCall.total_score <= 750)
        /\ lastCall.description.prefix = "Minor anomaly"
           <=> (0 < lastCall.total_score /\ lastCall.total_score <= 250)
        /\ lastCall.description.prefix = "Warning anomaly" <=> lastCall.total_score <= 0
        /\ (lastCall.anomalies = <<ViewsFivefold>> /\ lastCall.total_score = 900) =>
               /\ lastCall.description.prefix = "Critical anomaly"
               /\ lastCall.description.points
                  = <<[metric_name |-> "views",
                       number |-> [whole |-> 5, frac |-> 0, places |-> 1],
                       text |-> "x higher"]>>
               /\ lastCall.description.source = AlertMessage.payload.source

\* the description of the single anomaly (views, 500, expected 100) with the
\* total 0.9 was generated
C16_Witness ==
    /\ lastCall.op = "_generate_description"
    /\ lastCall.anomalies = <<ViewsFivefold>>
    /\ lastCall.total_score = 900
    /\ lastCall.description.prefix = "Critical anomaly"
    /\ lastCall.description.points[1].number.whole = 5

(***************************************************************************)
(* The refills on their own, stopped anywhere.  The query (.all()) raises  *)
(* before the loop writes anything; the loop may be stopped by a raise     *)
(* after any number of its assignments, each of which stores one whole     *)
(* dict.  Between refills the rows of the store may be given new values.   *)
(***************************************************************************)
RefillOps == {"_get_predictions_from_db", "_get_statistics_from_db", "_get_coefficients_from_db"}

\* the rows the query of a refill fetches
RowsFetched(op, from_date, to_date) ==
    IF op = "_get_predictions_from_db"
    THEN SelectSeq(db.predictions, LAMBDA r : r.date >= from_date /\ r.date <= to_date)
    ELSE IF op = "_get_statistics_from_db"
    THEN SelectSeq(db.statistics, LAMBDA r : r.date_from <= from_date /\ r.date_to >= from_date)
    ELSE db.coefficients

\* the loop of a refill over the rows it is given
StoreRows(op, c, rows, time) ==
    IF op = "_get_predictions_from_db" THEN StorePredictions(c, rows, time)
    ELSE IF op = "_get_statistics_from_db" THEN StoreStatistics(c, rows, time)
    ELSE StoreCoefficients(c, rows, time)

CacheOf(op) ==
    IF op = "_get_predictions_from_db" THEN predictions
    ELSE IF op = "_get_statistics_from_db" THEN statistics
    ELSE coefficients

\* a refill whose query fetched rows wrote the first k of them to the cache;
\* it raised if the store was down or the loop was stopped short.  One
\* refill of each cache is followed, the first since construction
Refilled(op, rows, k) ==
    /\ IF lastCall = NoCall THEN TRUE ELSE ~lastCall.raised /\ CacheOf(op) = lastCall.init[op]
    /\ lastCall' = [op |-> op, rows |-> rows, written |-> IF dbUp THEN k ELSE 0,
                    raised |-> ~dbUp \/ k < Len(rows), before |-> CacheOf(op),
                    init |-> IF lastCall = NoCall
                             THEN [o \in RefillOps |-> CacheOf(o)] ELSE lastCall.init,
                    after |-> IF dbUp THEN StoreRows(op, CacheOf(op), SubSeq(rows, 1, k), now)
                              ELSE CacheOf(op)]
    /\ predictions' = IF op = "_get_predictions_from_db" THEN lastCall'.after
                      ELSE predictions
    /\ statistics' = IF op = "_get_statistics_from_db" THEN lastCall'.after ELSE statistics
    /\ coefficients' = IF op = "_get_coefficients_from_db" THEN lastCall'.after
                       ELSE coefficients
    /\ UNCHANGED <<now, dbUp, redisUp, kibanaUp, db, kibanaObjects, pc, inflight, log>>

\* _get_predictions_from_db, _get_statistics_from_db or
\* _get_coefficients_from_db is called, as get_prediction(date, ..) and
\* get_statistics(date, ..) call them
Refill ==
    \E op \in RefillOps, date \in QueryDates :
        \E k \in 0..Len(RowsFetched(op, date, date)) :
            IF op = "_get_predictions_from_db"
            THEN \E j \in 0..Len(RowsFetched(op, _get_nearest_date(date) - cache_big_update_window,
                                              _get_nearest_date(date) + cache_big_update_window)) :
                     Refilled(op, RowsFetched(op, _get_nearest_date(date) - cache_big_update_window,
                                              _get_nearest_date(date) + cache_big_update_window), j)
            ELSE Refilled(op, RowsFetched(op, date, date), k)

\* the rows of the store with new values in every column that is not a key
RevisedRows(table) ==
    [predictions |-> [i \in DOMAIN table.predictions |->
                         [table.predictions[i] EXCEPT !.views = @ + 1, !.views_upper = @ + 2]],
     statistics |-> [i \in DOMAIN table.statistics |->
                        [table.statistics[i] EXCEPT !.mean = Rat(@.n + 1, @.d),
                                                    !.std = Rat(@.n + 1, @.d)]],
     coefficients |-> [i \in DOMAIN table.coefficients |->
                          [table.coefficients[i]
                              EXCEPT !.forwards_by_views = Rat(@.n + 1, @.d),
                                     !.reaction_count_by_views = Rat(@.n + 1, @.d),
                                     !.minimal_views_threshold = 50]]]

\* the predictor rewrites the tables, once
DbRevise ==
    /\ db \in Databases
    /\ db' = RevisedRows(db)
    /\ UNCHANGED <<now, dbUp, redisUp, kibanaUp, predictions, statistics, coefficients,
                   kibanaObjects, lastCall, pc, inflight, log>>

NextRefill == Refill \/ DbRevise \/ Tick \/ DbToggle

SpecRefill == Init /\ [][NextRefill]_vars

\* the cache key a refill stores a row under
KeyOfRow(op, row) ==
    IF op = "_get_predictions_from_db" THEN PredictionKey(row)
    ELSE IF op = "_get_statistics_from_db" THEN StatisticsKey(row)
    ELSE row.id

\* every column of a store row that is not part of its key
NonKeyFields(op, row) ==
    IF op = "_get_predictions_from_db"
    THEN [views |-> row.views, views_upper |-> row.views_upper]
    ELSE IF op = "_get_statistics_from_db"
    THEN [mean |-> row.mean, std |-> row.std]
    ELSE [forwards_by_views |-> row.forwards_by_views,
          reaction_count_by_views |-> row.reaction_count_by_views,
          minimal_views_threshold |-> row.minimal_views_threshold]

\* the entry is as it was before the last refill
AsBefore(e) == \E j \in 1..Len(lastCall.before) : lastCall.before[j] = e

\* the entry holds every non-key column of a row the last refill wrote
WholeRow(e) ==
    \E j \in 1..lastCall.written :
        /\ e.key = KeyOfRow(lastCall.op, lastCall.rows[j])
        /\ e.val = NonKeyFields(lastCall.op, lastCall.rows[j])

\* C24: after a refill that raised, every entry of the cache is as it was
\* before the refill or holds all the non-key columns of one store row, never
\* a mixture; the entries under keys the refill did not write are unchanged
C24_FailedRefillKeepsEntriesWhole ==
    (lastCall.op \in RefillOps /\ lastCall.raised) =>
        \A i \in 1..Len(lastCall.after) :
            /\ AsBefore(lastCall.after[i]) \/ WholeRow(lastCall.after[i])
            /\ (\A j \in 1..lastCall.written :
                    lastCall.after[i].key # KeyOfRow(lastCall.op, lastCall.rows[j]))
                => AsBefore(lastCall.after[i])

\* a refill of the predictions stopped after its first row, of two or more:
\* the entry of that row has the new values, another entry is as it was
C24_Witness ==
    /\ lastCall.op = "_get_predictions_from_db" /\ lastCall.raised
    /\ lastCall.written = 1 /\ Len(lastCall.rows) >= 2
    /\ \E i \in 1..Len(lastCall.after), j \in 1..Len(lastCall.before) :
           /\ lastCall.after[i].key = lastCall.before[j].key
           /\ lastCall.after[i].val # lastCall.before[j].val
           /\ WholeRow(lastCall.after[i])
    /\ \E i \in 1..Len(lastCall.after) :
           AsBefore(lastCall.after[i]) /\ ~WholeRow(lastCall.after[i])

(***************************************************************************)
(* _run_detectors with the detectors configured in either order, from the  *)
(* same caches and services, beside each detector run on its own.          *)
(***************************************************************************)
\* what a run of detectors left: whether it raised and the accumulator
Outcome(r) == [raised |-> r.raised, anomalies |-> r.anomalies]

\* _run_detectors(message) is called; forth is what it does with the
\* detectors in the configured order, back in the reverse order
DetectorsOrdered ==
    \E m \in Messages :
        /\ predictions' = _run_detectors(Detectors, m, Caches, Env).st.predictions
        /\ statistics' = _run_detectors(Detectors, m, Caches, Env).st.statistics
        /\ coefficients' = _run_detectors(Detectors, m, Caches, Env).st.coefficients
        /\ lastCall' = [op |-> "_run_detectors", message |-> m,
                        forth |-> Outcome(_run_detectors(Detectors, m, Caches, Env)),
                        back |-> Outcome(_run_detectors(<<Detectors[2], Detectors[1]>>, m,
                                                        Caches, Env)),
                        metric |-> Outcome(MetricRun(m.payload, <<>>, Caches, Env)),
                        repost |-> Outcome(RepostRun(m.payload, <<>>, Caches, Env))]
        /\ UNCHANGED <<now, dbUp, redisUp, kibanaUp, db, kibanaObjects, pc, inflight, log>>

NextOrder == DetectorsOrdered \/ Tick \/ DbToggle \/ RedisToggle

SpecOrder == Init /\ [][NextOrder]_vars

SameMultiset(s, t) ==
    /\ Len(s) = Len(t)
    /\ \A i \in DOMAIN s : Count(s, s[i]) = Count(t, s[i])

\* either order left the anomalies each detector appends on its own, one
\* detector's after the other's
EachOnlyAppends ==
    /\ lastCall.forth.anomalies = lastCall.metric.anomalies \o lastCall.repost.anomalies
    /\ lastCall.back.anomalies = lastCall.repost.anomalies \o lastCall.metric.anomalies

\* C25: run in either order, the metric and the repost detector append the
\* same multiset of anomalies, each one what it appends on its own
C25_OrderIndependent ==
    lastCall.op = "_run_detectors" =>
        /\ SameMultiset(lastCall.forth.anomalies, lastCall.back.anomalies)
        /\ EachOnlyAppends

\* it holds of the runs in which no detector raises
OrderIndependentUnlessRaised ==
    ( /\ lastCall.op = "_run_detectors"
      /\ ~lastCall.forth.raised /\ ~lastCall.back.raised ) =>
        /\ SameMultiset(lastCall.forth.anomalies, lastCall.back.anomalies)
        /\ EachOnlyAppends

\* both detectors appended and none raised: the two orders left the same
\* anomalies in different sequences
BothAppendedInEitherOrder ==
    /\ lastCall.op = "_run_detectors"
    /\ ~lastCall.forth.raised /\ ~lastCall.back.raised
    /\ lastCall.metric.anomalies # <<>> /\ lastCall.repost.anomalies # <<>>
    /\ lastCall.forth.anomalies # lastCall.back.anomalies

\* the metric detector raised after the repost detector had appended: the
\* accumulator holds the repost anomaly in one order and nothing in the other
RaiseLeftOrdersApart ==
    /\ lastCall.op = "_run_detectors"
    /\ lastCall.forth.raised /\ lastCall.forth.anomalies = <<>>
    /\ lastCall.back.raised /\ lastCall.back.anomalies # <<>>

====
